---- MODULE Spec2Model ----
(***************************************************************************)
(* Synchronisation, optimistic-update, print-queue and cache layer of the  *)
(* warehouse placement API.  Time is Date.now() in whole seconds.  The     *)
(* key/value store (redis) entries carry their absolute expiry; the clock  *)
(* action drops every entry whose expiry has passed, as redis does.        *)
(***************************************************************************)
EXTENDS Integers, Sequences, FiniteSets, TLC

VARIABLES
    now,        \* Date.now(), seconds
    ticks,      \* number of clock advances so far
    lastCleanup, \* when the scheduler last ran the cleanup task
    products,   \* products table: id -> row
    cache,      \* colocacion:product:<barcode>
    freq,       \* colocacion:frequent:<barcode>
    cacheStats, \* colocacion:cache:stats
    updates,    \* optimistic_update:<id>
    undoRedo,   \* undo_redo:<user>:<device>
    req,        \* PATCH /products/:id/advanced requests in flight, per actor
    nextUpdate, \* number of update ids handed out
    last,       \* history: the request that returned last
    chain,      \* history: undo/redo calls since the last confirmed update
    productLocations, \* product_locations table, oldest row first
    queue,      \* print_queue: sorted set of (member, score)
    processing, \* print_queue:processing:<jobId>
    stats,      \* print_queue:stats
    printed,    \* history: jobs that completeJob has completed
    labels,     \* product_labels table: (product_id, created_by) -> row
    nextJob,    \* number of job ids handed out
    jobs,       \* history: what the queue operations did with each job
    syncLock,   \* sync_lock
    sweeps,     \* fullSync calls in flight, per caller
    conflicts,  \* sync_conflicts:<productId>:<field>
    syncStats,  \* sync_stats
    sweepCount,  \* number of fullSync calls so far
    tokens,     \* critical_change_token:<token>, in the order of their issue
    checks      \* requests carrying a confirmationToken inside detectCriticalChanges

updVars == <<products, cache, freq, cacheStats, updates, undoRedo, req, nextUpdate, last, chain,
            productLocations>>
queueVars == <<queue, processing, stats, printed, nextJob, jobs, labels>>
syncVars == <<syncLock, sweeps, conflicts, syncStats, sweepCount>>
confirmVars == <<tokens, checks>>
vars == <<now, ticks, lastCleanup, updVars, queueVars, syncVars, confirmVars>>

----------------------------------------------------------------------------
\* Bounds of the model
MaxTicks == 2
MaxUpdates == 2
MaxGets == 5
MaxStagedUpdates == 1
MaxTokens == 3
MaxChecks == 2
InitialHistory == 9

\* Program constants
UPDATE_TTL == 300
MAX_UNDO_OPERATIONS == 10
CACHE_TTL == 300
FREQUENT_CACHE_TTL == 1800
FREQUENT_THRESHOLD == 5
FREQUENT_COUNTER_TTL == 86400
OPTIMISTIC_CRON_PERIOD == 300
TOKEN_TTL == 300
HIGH_STOCK == 10000
LOW_STOCK == 1000

NULL == "null"          \* JavaScript null
UNDEF == "undefined"    \* JavaScript undefined / absent JSON member
UndefStock == 0 - 1000  \* an absent stock member of a request body
NullDate == 0 - 1       \* a null last_odoo_sync (sorts before every date)

ProductIds == {"p1", "p2"}
OneProduct == {"p1"}     \* the product the requests of one caller are about
Actors == {"u1", "u2"}   \* (userId, deviceId) pairs
SingleActor == {"u1"}
UpdateIds == 1..MaxUpdates

\* Request bodies of the update handler
LocationInputs == {UNDEF, "", "B215", "a010"}
StockInputs == {UndefStock, 8, -1}
\* Locations a caller gives a product before pushing it: none, or another one
PushLocationInputs == {"", "B215"}
\* Elapsed time between two observed instants
UpdateTimeSteps == {2, 299}
CacheTimeSteps == {301, 86400}

NoProduct == [status |-> "missing"]   \* a search or findByPk that found no row
NoEntry == [present |-> FALSE]
NoUpdate == [present |-> FALSE]
Idle == [pc |-> "idle"]
NoLast == [kind |-> "none"]
NoChain == [actor |-> NULL]

----------------------------------------------------------------------------
\* Helpers

Min(a, b) == IF a < b THEN a ELSE b

\* Array.prototype.slice(0, n)
Slice(s, n) == SubSeq(s, 1, Min(n, Len(s)))

\* operations.find(op => op.canUndo): the index of the first such entry, 0 when none
FirstCanUndo(operations) ==
    IF \E i \in 1..Len(operations) : operations[i].canUndo
    THEN CHOOSE i \in 1..Len(operations) :
            operations[i].canUndo /\ \A j \in 1..(i - 1) : ~operations[j].canUndo
    ELSE 0

\* operations.find(op => op.canRedo): the index of the first such entry, 0 when none
FirstCanRedo(operations) ==
    IF \E i \in 1..Len(operations) : operations[i].canRedo
    THEN CHOOSE i \in 1..Len(operations) :
            operations[i].canRedo /\ \A j \in 1..(i - 1) : ~operations[j].canRedo
    ELSE 0

Perms(S) == {f \in [1..Cardinality(S) -> S] : \A i, j \in 1..Cardinality(S) : f[i] = f[j] => i = j}

\* location.trim().toUpperCase() on the strings of the model
Clean(location) == IF location = "a010" THEN "A010" ELSE location

\* /^[A-Z]\d{2}[0-5]$/
MatchesLocationRegex(location) == location \in {"A010", "B215"}

\* LocationValidator.validateAndClean: the cleaned location, or "throw"
ValidateAndClean(location) ==
    IF location # "" /\ MatchesLocationRegex(Clean(location)) THEN Clean(location) ELSE "throw"

\* A body with a location of the wrong format or with a negative stock
InvalidBody(location, stock) ==
    \/ location \notin {UNDEF, NULL, ""} /\ ~MatchesLocationRegex(location)
    \/ stock # UndefStock /\ stock < 0

\* A schema without the pattern of the location
JoiWithoutPattern(location, stock) ==
    /\ stock = UndefStock \/ stock >= 0
    /\ ~(location = UNDEF /\ stock = UndefStock)

\* Joi schema colocacionValidation.updateProduct
JoiUpdateProduct(location, stock) ==
    /\ location \in {UNDEF, NULL, ""} \/ MatchesLocationRegex(location)
    /\ stock = UndefStock \/ stock >= 0
    /\ ~(location = UNDEF /\ stock = UndefStock)

\* Sequelize validation of the products row on save: location is /^[A-Z]\d{2}[0-5]$/ or null
SaveValidates(row) ==
    /\ row.location = NULL \/ MatchesLocationRegex(row.location)
    /\ row.stock >= 0

\* The same schema applied to a body that may hold a confirmationToken member: the object
\* schema names location and stock only and is validated without allowUnknown
JoiUpdateBody(location, stock, hasToken) ==
    /\ ~hasToken
    /\ JoiUpdateProduct(location, stock)

LocStock(row) == [location |-> row.location, stock |-> row.stock]

----------------------------------------------------------------------------
\* Adaptive product cache

\* What the key/value store does during one call of the cache service: it works, its
\* redis.get alone throws, or every command of the call throws
StoreFaults == {"none", "get", "down"}

\* An absent frequency counter
NoCounter == [count |-> 0, expires |-> 0]

\* CacheService.markAsFrequent: the counter after redis.incr, and after redis.expire on
\* the first count
FreqAfterHit(p) ==
    [count |-> freq[p].count + 1,
     expires |-> IF freq[p].count = 0 THEN now + FREQUENT_COUNTER_TTL ELSE freq[p].expires]

\* CacheService.incrementCacheHit
IncrementCacheHit(st) == [st EXCEPT !.hits = @ + 1, !.total = @ + 1]

\* CacheService.incrementCacheMiss
IncrementCacheMiss(st) == [st EXCEPT !.misses = @ + 1, !.total = @ + 1]

\* A getProduct that counts a lookup only when it hits
GetProductCountingHitsOnly(p, fault) ==
    IF fault = "none" /\ cache[p].present
    THEN [cache |-> IF FreqAfterHit(p).count >= FREQUENT_THRESHOLD
                    THEN [cache EXCEPT ![p].expires = now + FREQUENT_CACHE_TTL]
                    ELSE cache,
          freq |-> [freq EXCEPT ![p] = FreqAfterHit(p)],
          cacheStats |-> IncrementCacheHit(cacheStats),
          product |-> cache[p].data]
    ELSE [cache |-> cache, freq |-> freq, cacheStats |-> cacheStats, product |-> NoProduct]

\* CacheService.getProduct: the stores after a lookup of p, and the product it returns
GetProduct(p, fault) ==
    IF fault = "down"
    THEN [cache |-> cache, freq |-> freq, cacheStats |-> cacheStats, product |-> NoProduct]
    ELSE IF fault = "get"
    THEN [cache |-> cache, freq |-> freq, cacheStats |-> IncrementCacheMiss(cacheStats),
          product |-> NoProduct]
    ELSE IF cache[p].present
    THEN [cache |-> IF FreqAfterHit(p).count >= FREQUENT_THRESHOLD
                    THEN [cache EXCEPT ![p].expires = now + FREQUENT_CACHE_TTL]
                    ELSE cache,
          freq |-> [freq EXCEPT ![p] = FreqAfterHit(p)],
          cacheStats |-> IncrementCacheHit(cacheStats),
          product |-> cache[p].data]
    ELSE [cache |-> cache, freq |-> freq, cacheStats |-> IncrementCacheMiss(cacheStats),
          product |-> NoProduct]

\* CacheService.setProduct(product)
CachePut(c, p, row) == [c EXCEPT ![p] = [present |-> TRUE, data |-> row, expires |-> now + CACHE_TTL]]

\* CacheService.invalidateProduct
InvalidateProduct(c, p) == [c EXCEPT ![p] = NoEntry]

\* ProductService.searchByBarcode: cache first, then the active rows, which it puts into
\* the cache; the stores after the search, and the product it returns
SearchEffect(p, fault) ==
    LET got == GetProduct(p, fault)
        row == IF products[p].status = "active" THEN products[p] ELSE NoProduct
    IN IF got.product # NoProduct THEN got
       ELSE [got EXCEPT !.product = row,
                        !.cache = IF row # NoProduct /\ fault # "down"
                                  THEN CachePut(@, p, row) ELSE @]

\* The search of a request while the store works
CacheAfterGet(p) == GetProduct(p, "none").cache
FreqAfterGet(p) == GetProduct(p, "none").freq
StatsAfterGet(p) == GetProduct(p, "none").cacheStats
SearchProduct(p) == SearchEffect(p, "none").product
CacheAfterSearch(p) == SearchEffect(p, "none").cache

----------------------------------------------------------------------------
\* Optimistic update manager

\* OptimisticUpdateService.createOptimisticUpdate: the record stored under the update id
OptimisticData(product, p, a, location, stock) ==
    [present |-> TRUE,
     productId |-> p,
     actor |-> a,
     originalData |-> [location |-> product.location, stock |-> product.stock,
                       last_odoo_sync |-> product.last_odoo_sync],
     newData |-> [location |-> location, stock |-> stock],
     timestamp |-> now,
     confirmed |-> FALSE,
     rollbackReason |-> UNDEF,
     expires |-> now + UPDATE_TTL]

\* A rollback that does not look at the confirmed flag
RollbackIgnoringConfirmed(st, id, reason) ==
    IF ~st.updates[id].present THEN st
    ELSE LET u == st.updates[id] IN
         [products |-> [st.products EXCEPT ![u.productId] =
                            [@ EXCEPT !.location = u.originalData.location,
                                      !.stock = u.originalData.stock,
                                      !.last_odoo_sync = u.originalData.last_odoo_sync]],
          updates |-> [st.updates EXCEPT ![id] =
                            [@ EXCEPT !.rollbackReason = reason, !.expires = now + UPDATE_TTL]]]

\* OptimisticUpdateService.rollbackOptimisticUpdate on st = [products, updates]
RollbackOptimisticUpdate(st, id, reason) ==
    IF ~st.updates[id].present THEN st
    ELSE IF st.updates[id].confirmed THEN st
    ELSE LET u == st.updates[id] IN
         [products |-> [st.products EXCEPT ![u.productId] =
                            [@ EXCEPT !.location = u.originalData.location,
                                      !.stock = u.originalData.stock,
                                      !.last_odoo_sync = u.originalData.last_odoo_sync]],
          updates |-> [st.updates EXCEPT ![id] =
                            [@ EXCEPT !.rollbackReason = reason, !.expires = now + UPDATE_TTL]]]

\* What rollbackOptimisticUpdate returns on st = [products, updates]
RollbackReturns(st, id) == st.updates[id].present /\ ~st.updates[id].confirmed

\* The undo/redo entry createUndoRedoOperation builds (id: the update it came from)
UndoRedoOperation(u, id) ==
    [id |-> id,
     productId |-> u.productId,
     beforeData |-> [location |-> u.originalData.location, stock |-> u.originalData.stock],
     afterData |-> [location |-> IF u.newData.location # UNDEF THEN u.newData.location
                                 ELSE u.originalData.location,
                    stock |-> IF u.newData.stock # UndefStock THEN u.newData.stock
                              ELSE u.originalData.stock],
     timestamp |-> u.timestamp,
     canUndo |-> TRUE,
     canRedo |-> FALSE]

\* A push that keeps every entry
PushOperationUnbounded(operations, op) ==
    LET kept == <<op>> \o operations
    IN [i \in 1..Len(kept) |-> IF i > 1 THEN [kept[i] EXCEPT !.canRedo = FALSE] ELSE kept[i]]

\* A push that leaves the flags of the earlier entries alone
PushOperationKeepingRedo(operations, op) == Slice(<<op>> \o operations, MAX_UNDO_OPERATIONS)

\* createUndoRedoOperation: unshift, keep the first MAX_UNDO_OPERATIONS, clear canRedo behind
PushOperation(operations, op) ==
    LET kept == Slice(<<op>> \o operations, MAX_UNDO_OPERATIONS)
    IN [i \in 1..Len(kept) |-> IF i > 1 THEN [kept[i] EXCEPT !.canRedo = FALSE] ELSE kept[i]]

\* OptimisticUpdateService.confirmOptimisticUpdate: the record after confirm
ConfirmedRecord(u) == [u EXCEPT !.confirmed = TRUE, !.expires = now + UPDATE_TTL]

----------------------------------------------------------------------------
\* ProductService.updateProduct

ValidatedLocation(location) ==
    IF location \in {UNDEF, NULL, ""} THEN NULL ELSE ValidateAndClean(location)

LocationChanged(row, location) == location # UNDEF /\ row.location # ValidatedLocation(location)
StockChanged(row, stock) == stock # UndefStock /\ row.stock # stock

\* A label's id stands for its row: the table holds one row per (product_id, created_by)
LabelIds == ProductIds \X Actors

NoLabel == [present |-> FALSE]

\* The labels the warehouse starts with: both actors have an unprinted label of p2, and
\* u2 a printed label of p1
InitialLabels ==
    [p \in ProductIds |-> [a \in Actors |->
        IF p = "p2" THEN [present |-> TRUE, location |-> "A010", is_printed |-> FALSE]
        ELSE IF a = "u2" THEN [present |-> TRUE, location |-> "A010", is_printed |-> TRUE]
        ELSE NoLabel]]

\* LabelService.createPrintJob accepts the ids: every one is an unprinted label of the caller
CreatePrintJobAccepts(lbls, labelIds, a) ==
    \A l \in labelIds :
        /\ l[2] = a
        /\ lbls[l[1]][l[2]].present
        /\ ~lbls[l[1]][l[2]].is_printed

\* A markLabelsAsPrinted that marks nothing
MarkNoLabels(lbls, labelIds, a) == lbls

\* LabelService.markLabelsAsPrinted
MarkLabelsAsPrinted(lbls, labelIds, a) ==
    [p \in ProductIds |-> [c \in Actors |->
        IF <<p, c>> \in labelIds /\ c = a /\ lbls[p][c].present /\ ~lbls[p][c].is_printed
        THEN [lbls[p][c] EXCEPT !.is_printed = TRUE]
        ELSE lbls[p][c]]]

\* A createOrUpdateLabel that leaves the print state of an existing label as it is
CreateOrUpdateLabelKeepingPrinted(lbls, row, p, a) ==
    [lbls EXCEPT ![p][a] = [present |-> TRUE, location |-> row.location,
                            is_printed |-> lbls[p][a].present /\ lbls[p][a].is_printed]]

\* ProductService.createOrUpdateLabel for the saved row of product p and actor a
CreateOrUpdateLabel(lbls, row, p, a) ==
    [lbls EXCEPT ![p][a] = [present |-> TRUE, location |-> row.location, is_printed |-> FALSE]]

\* The row updateProduct saves
UpdatedRow(row, location, stock) ==
    [row EXCEPT !.location = IF LocationChanged(row, location) THEN ValidatedLocation(location) ELSE @,
                !.stock = IF StockChanged(row, stock) THEN stock ELSE @,
                !.last_odoo_sync = now]

\* ValidationService.validateProductUpdate(...).isValid
ValidateProductUpdate(row, location, stock) ==
    /\ \/ location = UNDEF
       \/ row.location # NULL /\ location \in {NULL, ""}
       \/ row.location = location
       \/ location \in {NULL, ""}
       \/ ValidateAndClean(location) # "throw"
    /\ stock = UndefStock \/ stock >= 0

----------------------------------------------------------------------------
\* Confirmation of critical changes (detectCriticalChanges)

Abs(n) == IF n < 0 THEN 0 - n ELSE n

CheckIds == 1..MaxChecks
NoCheck == [pc |-> "idle"]
UnknownToken == MaxTokens + 1   \* a confirmationToken the store never held

\* CRITICAL_CHANGE_RULES with requiresConfirmation, as detectCriticalChangesInData applies
\* them to the members of the body that are present
RequiresConfirmation(row, location, stock) ==
    \/ /\ stock # UndefStock
       /\ \/ stock = 0 /\ row.stock > 0
          \/ 2 * Abs(stock - row.stock) > row.stock /\ row.stock > 0
          \/ stock > HIGH_STOCK /\ row.stock < LOW_STOCK
    \/ /\ location # UNDEF
       /\ row.location # NULL /\ location = NULL

\* generateConfirmationToken: the store after the setex of a new token
TokensAfterDetection(a, p, location, stock) ==
    IF RequiresConfirmation(products[p], location, stock)
    THEN Append(tokens, [present |-> TRUE, userId |-> a, productId |-> p,
                         newData |-> [location |-> location, stock |-> stock],
                         timestamp |-> now, expires |-> now + TOKEN_TTL, uses |-> 0])
    ELSE tokens

\* verifyConfirmationToken
VerifyConfirmationToken(store, t, a, p) ==
    /\ t \in 1..Len(store)
    /\ store[t].present
    /\ store[t].userId = a
    /\ store[t].productId = p
    /\ now - store[t].timestamp <= TOKEN_TTL

\* clearConfirmationToken: redis.del of the token, whether or not it is still there
ClearConfirmationToken(store, t) ==
    [k \in 1..Len(store) |-> IF k = t THEN [store[k] EXCEPT !.present = FALSE] ELSE store[k]]

\* The tokens left at time t
UnexpiredTokens(store, t) ==
    [k \in 1..Len(store) |->
        IF store[k].present /\ store[k].expires <= t
        THEN [store[k] EXCEPT !.present = FALSE] ELSE store[k]]

----------------------------------------------------------------------------
\* Request handlers of the update path

\* detectCriticalChanges answers 409 with a new token: the changes require confirmation and
\* the body carries no confirmationToken
ConfirmationNeeded(a, p, location, stock) ==
    /\ req[a] = Idle
    /\ Len(tokens) < MaxTokens
    /\ RequiresConfirmation(products[p], location, stock)
    /\ tokens' = TokensAfterDetection(a, p, location, stock)
    /\ last' = [kind |-> "confirmation_needed", productId |-> p, changed |-> FALSE,
                actor |-> a, token |-> Len(tokens) + 1]
    /\ UNCHANGED <<now, ticks, lastCleanup, products, cache, freq, cacheStats, updates, undoRedo, req,
                   nextUpdate, chain, checks>>
    /\ UNCHANGED <<productLocations, queueVars, syncVars>>

\* detectCriticalChanges for a body with confirmationToken t, up to the answer of
\* verifyConfirmationToken: 400 when the token is refused
DetectCriticalChanges(k, a, p, location, stock, t) ==
    /\ checks[k] = NoCheck
    /\ t \in 1..Len(tokens) \/ t = UnknownToken
    /\ RequiresConfirmation(products[p], location, stock) => Len(tokens) < MaxTokens
    /\ LET issued == TokensAfterDetection(a, p, location, stock)
       IN /\ tokens' = issued
          /\ IF VerifyConfirmationToken(issued, t, a, p)
             THEN /\ checks' = [checks EXCEPT ![k] =
                                   [pc |-> "verified", actor |-> a, productId |-> p,
                                    location |-> location, stock |-> stock, token |-> t]]
                  /\ UNCHANGED last
             ELSE /\ UNCHANGED checks
                  /\ last' = [kind |-> "rejected", productId |-> p, changed |-> FALSE]
    /\ UNCHANGED <<now, ticks, lastCleanup, products, cache, freq, cacheStats, updates, undoRedo, req,
                   nextUpdate, chain>>
    /\ UNCHANGED <<productLocations, queueVars, syncVars>>

\* detectCriticalChanges from clearConfirmationToken on: the token is deleted, a negative
\* stock is refused, and the request goes on to validate(colocacionValidation.updateProduct),
\* which answers 400 to the body
FinishDetection(k) ==
    /\ checks[k].pc = "verified"
    /\ LET c == checks[k]
           passes == c.stock = UndefStock \/ c.stock >= 0
       IN /\ ~JoiUpdateBody(c.location, c.stock, TRUE)
          /\ tokens' = [ClearConfirmationToken(tokens, c.token) EXCEPT
                           ![c.token].uses = IF passes THEN @ + 1 ELSE @]
          /\ last' = [kind |-> "rejected", productId |-> c.productId, changed |-> FALSE,
                      actor |-> c.actor, token |-> c.token, passed |-> passes]
    /\ checks' = [checks EXCEPT ![k] = NoCheck]
    /\ UNCHANGED <<now, ticks, lastCleanup, products, cache, freq, cacheStats, updates, undoRedo, req,
                   nextUpdate, chain>>
    /\ UNCHANGED <<productLocations, queueVars, syncVars>>

\* validate(colocacionValidation.updateProduct) answers 400 before the controller runs
UpdateRejected(a, p, location, stock) ==
    /\ req[a] = Idle
    /\ ~RequiresConfirmation(products[p], location, stock)
    /\ ~JoiUpdateProduct(location, stock)
    /\ last' = [kind |-> "rejected", productId |-> p, changed |-> FALSE]
    /\ UNCHANGED <<confirmVars, now, ticks, lastCleanup, products, cache, freq, cacheStats, updates, undoRedo, req,
                   nextUpdate, chain>>
    /\ UNCHANGED <<productLocations, queueVars, syncVars>>

\* updateProductAdvanced up to the durable write: search, validate, stage
UpdateBegin(a, p, location, stock) ==
    /\ req[a] = Idle
    /\ nextUpdate < MaxUpdates
    /\ ~RequiresConfirmation(products[p], location, stock)
    /\ JoiUpdateProduct(location, stock)
    /\ cache' = CacheAfterSearch(p)
    /\ freq' = FreqAfterGet(p)
    /\ cacheStats' = StatsAfterGet(p)
    /\ LET product == SearchProduct(p)
           id == nextUpdate + 1
       IN IF product = NoProduct \/ ~ValidateProductUpdate(products[p], location, stock)
          THEN /\ last' = [kind |-> "rejected", productId |-> p, changed |-> FALSE]
               /\ UNCHANGED <<updates, req, nextUpdate>>
          ELSE /\ updates' = [updates EXCEPT ![id] = OptimisticData(product, p, a, location, stock)]
               /\ nextUpdate' = id
               /\ req' = [req EXCEPT ![a] = [pc |-> "writing", id |-> id, productId |-> p,
                                             location |-> location, stock |-> stock,
                                             stageDurable |-> LocStock(products[p]),
                                             stagedAt |-> now]]
               /\ last' = [kind |-> "staged", productId |-> p, changed |-> FALSE]
    /\ UNCHANGED <<confirmVars, now, ticks, lastCleanup, products, undoRedo, chain>>
    /\ UNCHANGED <<productLocations, queueVars, syncVars>>

\* How the request goes on: to its answer, or to an exception thrown by product.save(),
\* by the label creation, or by res.json while the answer is sent after the confirm
UpdateOutcomes == {"ok", "throw_save", "throw_label", "throw_response"}

\* The row ProductLocation.create inserts, before product.save()
ProductLocationRow(p, oldLocation, newLocation, a) ==
    [product_id |-> p, old_location |-> oldLocation, new_location |-> newLocation,
     changed_by |-> a]

\* searchByBarcode up to its store read, when the cache has no entry: getProduct misses
\* and Product.findOne reads the active row
SearchMiss(a, p) ==
    /\ req[a] = Idle
    /\ cacheStats.total < MaxGets
    /\ ~cache[p].present
    /\ cacheStats' = GetProduct(p, "none").cacheStats
    /\ req' = [req EXCEPT ![a] =
                  [pc |-> "searching", productId |-> p,
                   product |-> IF products[p].status = "active" THEN products[p]
                               ELSE NoProduct]]
    /\ UNCHANGED <<confirmVars, now, ticks, lastCleanup, products, cache, freq, updates, undoRedo,
                   nextUpdate, last, chain>>
    /\ UNCHANGED <<productLocations, queueVars, syncVars>>

\* searchByBarcode from its store read on: setProduct of the row it read, and the answer
SearchPut(a) ==
    /\ req[a].pc = "searching"
    /\ cache' = IF req[a].product # NoProduct
                THEN CachePut(cache, req[a].productId, req[a].product)
                ELSE cache
    /\ last' = [kind |-> "search", productId |-> req[a].productId, changed |-> FALSE,
                fault |-> "none", product |-> req[a].product, source |-> "database"]
    /\ req' = [req EXCEPT ![a] = Idle]
    /\ UNCHANGED <<confirmVars, now, ticks, lastCleanup, products, freq, cacheStats, updates, undoRedo,
                   nextUpdate, chain>>
    /\ UNCHANGED <<productLocations, queueVars, syncVars>>

\* The basic update route: the controller's updateProduct hands the body to
\* ProductService.updateProduct, with no optimistic record and no rollback
UpdateProduct(a, p, location, stock, outcome) ==
    /\ req[a] = Idle
    /\ Len(productLocations) < MaxUpdates
    /\ JoiUpdateProduct(location, stock)
    /\ outcome \in {"ok", "throw_save", "throw_label"}
    /\ LET row == products[p]
           early == \/ row.status # "active"
                    \/ ValidatedLocation(location) = "throw"
                    \/ stock # UndefStock /\ stock < 0
           changes == LocationChanged(row, location) \/ StockChanged(row, stock)
           saved == ~early /\ changes /\ outcome # "throw_save"
           labelled == /\ saved
                       /\ outcome = "ok"
                       /\ LocationChanged(row, location)
                       /\ ValidatedLocation(location) # NULL
           written == IF saved THEN [products EXCEPT ![p] = UpdatedRow(row, location, stock)]
                      ELSE products
       IN /\ products' = written
          /\ cache' = IF saved THEN InvalidateProduct(cache, p) ELSE cache
          /\ productLocations' =
                IF ~early /\ LocationChanged(row, location)
                THEN Append(productLocations,
                            ProductLocationRow(p, row.location, ValidatedLocation(location), a))
                ELSE productLocations
          /\ labels' = IF labelled THEN CreateOrUpdateLabel(labels, written[p], p, a) ELSE labels
          /\ last' = [kind |-> IF early \/ (changes /\ outcome # "ok")
                               THEN "basic_failed" ELSE "basic_update",
                      productId |-> p, changed |-> saved,
                      location |-> location, stock |-> stock]
    /\ UNCHANGED <<confirmVars, now, ticks, lastCleanup, freq, cacheStats, updates, undoRedo, req,
                   nextUpdate, chain>>
    /\ UNCHANGED <<queue, processing, stats, printed, nextJob, jobs, syncVars>>

\* updateProductAdvanced from the durable write on: updateProduct, then confirm and
\* answer; on an exception, rollback in the inner catch and again in the outer catch
UpdateFinish(a, outcome) ==
    /\ req[a].pc = "writing"
    /\ LET r == req[a]
           p == r.productId
           row == products[p]
           changes == LocationChanged(row, r.location) \/ StockChanged(row, r.stock)
           thrown == IF row.status # "active" \/ ValidatedLocation(r.location) = "throw"
                     THEN "throw_save"
                     ELSE IF ~changes /\ outcome = "throw_label" THEN "ok" ELSE outcome
           saved == thrown # "throw_save" /\ changes
           early == row.status # "active" \/ ValidatedLocation(r.location) = "throw"
           recorded == ~early /\ LocationChanged(row, r.location)
           written == IF saved THEN [products EXCEPT ![p] = UpdatedRow(row, r.location, r.stock)]
                      ELSE products
           inner == RollbackOptimisticUpdate([products |-> written, updates |-> updates],
                                             r.id, "update error")
           outer == RollbackOptimisticUpdate(inner, r.id, "update error")
           confirmed == [products |-> written,
                         updates |-> IF updates[r.id].present
                                     THEN [updates EXCEPT ![r.id] = ConfirmedRecord(@)]
                                     ELSE updates]
           late == RollbackOptimisticUpdate(confirmed, r.id, "response error")
           latest == RollbackOptimisticUpdate(late, r.id, "response error")
           labelled == /\ thrown \in {"ok", "throw_response"}
                       /\ saved
                       /\ LocationChanged(row, r.location)
                       /\ ValidatedLocation(r.location) # NULL
       IN /\ outcome = thrown
          /\ cache' = IF saved THEN InvalidateProduct(cache, p) ELSE cache
          /\ productLocations' =
                IF recorded
                THEN Append(productLocations,
                            ProductLocationRow(p, row.location, ValidatedLocation(r.location), a))
                ELSE productLocations
          /\ IF thrown = "ok"
             THEN /\ products' = written
                  /\ updates' = confirmed.updates
                  /\ last' = [kind |-> "update", productId |-> p, changed |-> saved,
                              rollbacks |-> <<>>]
             ELSE IF thrown = "throw_response"
             THEN /\ products' = latest.products
                  /\ updates' = latest.updates
                  /\ last' = [kind |-> "update", productId |-> p, changed |-> saved,
                              rollbacks |-> <<RollbackReturns(confirmed, r.id),
                                              RollbackReturns(late, r.id)>>]
             ELSE /\ products' = outer.products
                  /\ updates' = outer.updates
                  /\ last' = [kind |-> "update_failed", productId |-> p,
                              changed |-> LocStock(outer.products[p]) # LocStock(row),
                              stageDurable |-> r.stageDurable,
                              rollbacks |-> <<RollbackReturns([products |-> written,
                                                               updates |-> updates], r.id),
                                              RollbackReturns(inner, r.id)>>]
          /\ IF thrown \in {"ok", "throw_response"}
             THEN /\ IF updates[r.id].present
                     THEN /\ undoRedo' = [undoRedo EXCEPT ![updates[r.id].actor] =
                                 PushOperation(@, UndoRedoOperation(ConfirmedRecord(updates[r.id]), r.id))]
                          /\ chain' = [actor |-> a, productId |-> p, before |-> LocStock(row),
                                       after |-> LocStock(written[p]), steps |-> <<>>]
                     ELSE /\ UNCHANGED undoRedo
                          /\ chain' = NoChain
             ELSE /\ chain' = NoChain
                  /\ UNCHANGED undoRedo
          /\ labels' = IF labelled THEN CreateOrUpdateLabel(labels, written[p], p, a)
                       ELSE labels
    /\ req' = [req EXCEPT ![a] = Idle]
    /\ UNCHANGED <<confirmVars, now, ticks, lastCleanup, freq, cacheStats, nextUpdate>>
    /\ UNCHANGED <<queue, processing, stats, printed, nextJob, jobs, syncVars>>

\* GET /products/search/:barcode
SearchByBarcode(a, p, fault) ==
    /\ cacheStats.total < MaxGets
    /\ LET found == SearchEffect(p, fault)
       IN /\ cache' = found.cache
          /\ freq' = found.freq
          /\ cacheStats' = found.cacheStats
          /\ last' = [kind |-> "search", productId |-> p, changed |-> FALSE,
                      fault |-> fault, product |-> found.product,
                      source |-> IF GetProduct(p, fault).product # NoProduct
                                 THEN "cache" ELSE "database"]
    /\ UNCHANGED <<confirmVars, now, ticks, lastCleanup, products, updates, undoRedo, req, nextUpdate, chain>>
    /\ UNCHANGED <<productLocations, queueVars, syncVars>>

\* The history of undo/redo calls that follow the confirmed update of chain
ChainAfter(a, step) ==
    IF chain # NoChain /\ chain.actor = a /\ Len(chain.steps) < 3
    THEN [chain EXCEPT !.steps = Append(@, step)]
    ELSE NoChain

\* OptimisticUpdateService.undoLastOperation (POST /undo)
UndoLastOperation(a) ==
    /\ LET operations == undoRedo[a]
           i == FirstCanUndo(operations)
       IN IF i = 0
          THEN /\ UNCHANGED <<products, undoRedo>>
               /\ last' = [kind |-> "undo", productId |-> NULL, changed |-> FALSE]
          ELSE LET op == operations[i]
                   row == [products[op.productId] EXCEPT !.location = op.beforeData.location,
                                                         !.stock = op.beforeData.stock,
                                                         !.last_odoo_sync = now]
               IN IF SaveValidates(row)
                  THEN /\ products' = [products EXCEPT ![op.productId] = row]
                       /\ undoRedo' = [undoRedo EXCEPT ![a][i].canUndo = FALSE,
                                                       ![a][i].canRedo = TRUE]
                       /\ last' = [kind |-> "undo", productId |-> op.productId,
                                   changed |-> LocStock(row) # LocStock(products[op.productId])]
                  ELSE /\ UNCHANGED <<products, undoRedo>>
                       /\ last' = [kind |-> "undo", productId |-> op.productId,
                                   changed |-> FALSE]
    /\ chain' = ChainAfter(a, "undo")
    /\ UNCHANGED <<confirmVars, now, ticks, lastCleanup, cache, freq, cacheStats, updates, req, nextUpdate>>
    /\ UNCHANGED <<productLocations, queueVars, syncVars>>

\* OptimisticUpdateService.redoLastOperation (POST /redo)
RedoLastOperation(a) ==
    /\ LET operations == undoRedo[a]
           i == FirstCanRedo(operations)
       IN IF i = 0
          THEN /\ UNCHANGED <<products, undoRedo>>
               /\ last' = [kind |-> "redo", productId |-> NULL, changed |-> FALSE]
          ELSE LET op == operations[i]
                   row == [products[op.productId] EXCEPT !.location = op.afterData.location,
                                                         !.stock = op.afterData.stock,
                                                         !.last_odoo_sync = now]
               IN IF SaveValidates(row)
                  THEN /\ products' = [products EXCEPT ![op.productId] = row]
                       /\ undoRedo' = [undoRedo EXCEPT ![a][i].canUndo = TRUE,
                                                       ![a][i].canRedo = FALSE]
                       /\ last' = [kind |-> "redo", productId |-> op.productId,
                                   changed |-> LocStock(row) # LocStock(products[op.productId])]
                  ELSE /\ UNCHANGED <<products, undoRedo>>
                       /\ last' = [kind |-> "redo", productId |-> op.productId,
                                   changed |-> FALSE]
    /\ chain' = ChainAfter(a, "redo")
    /\ UNCHANGED <<confirmVars, now, ticks, lastCleanup, cache, freq, cacheStats, updates, req, nextUpdate>>
    /\ UNCHANGED <<productLocations, queueVars, syncVars>>

\* OptimisticUpdateService.confirmOptimisticUpdate(id), called with any id
ConfirmOptimisticUpdate(id) ==
    /\ IF updates[id].present
       THEN /\ updates' = [updates EXCEPT ![id] = ConfirmedRecord(@)]
            /\ undoRedo' = [undoRedo EXCEPT ![updates[id].actor] =
                   PushOperation(@, UndoRedoOperation(ConfirmedRecord(updates[id]), id))]
       ELSE UNCHANGED <<updates, undoRedo>>
    /\ last' = [kind |-> "confirm", productId |-> NULL, changed |-> FALSE,
                found |-> updates[id].present]
    /\ UNCHANGED <<confirmVars, now, ticks, lastCleanup, products, cache, freq, cacheStats, req,
                   nextUpdate, chain>>
    /\ UNCHANGED <<productLocations, queueVars, syncVars>>

\* OptimisticUpdateService.rollbackOptimisticUpdate(id, reason), called with any id
RollbackUpdate(id, reason) ==
    /\ LET st == RollbackOptimisticUpdate([products |-> products, updates |-> updates],
                                          id, reason)
       IN /\ products' = st.products
          /\ updates' = st.updates
    /\ last' = [kind |-> "rollback", productId |-> NULL, changed |-> FALSE,
                found |-> updates[id].present]
    /\ UNCHANGED <<confirmVars, now, ticks, lastCleanup, cache, freq, cacheStats, undoRedo, req,
                   nextUpdate, chain>>
    /\ UNCHANGED <<productLocations, queueVars, syncVars>>

\* The ids cleanupExpiredOperations rolls back: unconfirmed and older than UPDATE_TTL
ExpiredUnconfirmed(upds, id) ==
    upds[id].present /\ ~upds[id].confirmed /\ now - upds[id].timestamp > UPDATE_TTL

RECURSIVE CleanupKeys(_, _)
\* The loop of cleanupExpiredOperations over redis.keys, in the order keys has them
CleanupKeys(st, keys) ==
    IF keys = <<>> THEN st
    ELSE CleanupKeys(IF ExpiredUnconfirmed(st.updates, Head(keys))
                     THEN RollbackOptimisticUpdate(st, Head(keys), "expired")
                     ELSE st,
                     Tail(keys))

\* OptimisticUpdateService.cleanupExpiredOperations, run by the scheduler every 5 minutes
CleanupExpiredOperations ==
    /\ \/ lastCleanup = NullDate
       \/ now > lastCleanup /\ (now - lastCleanup) % OPTIMISTIC_CRON_PERIOD = 0
    /\ \E keys \in Perms({id \in UpdateIds : updates[id].present}) :
          LET st == CleanupKeys([products |-> products, updates |-> updates], keys)
          IN /\ products' = st.products
             /\ updates' = st.updates
             /\ last' = [kind |-> "cleanup", productId |-> NULL,
                         changed |-> st.products # products]
             /\ chain' = IF st.updates # updates THEN NoChain ELSE chain
    /\ lastCleanup' = now
    /\ UNCHANGED <<confirmVars, now, ticks, cache, freq, cacheStats, undoRedo, req, nextUpdate>>
    /\ UNCHANGED <<productLocations, queueVars, syncVars>>

\* redis drops every key whose TTL has run out
Unexpired(store, t) ==
    [k \in DOMAIN store |->
        IF store[k].present /\ store[k].expires <= t THEN [present |-> FALSE] ELSE store[k]]

\* The frequency counters left at time t
UnexpiredCounters(counters, t) ==
    [k \in DOMAIN counters |->
        IF counters[k].count > 0 /\ counters[k].expires <= t THEN NoCounter ELSE counters[k]]

\* The clock moves on by d seconds
TickUpdate(d) ==
    /\ ticks < MaxTicks
    /\ now' = now + d
    /\ ticks' = ticks + 1
    /\ UNCHANGED lastCleanup
    /\ cache' = Unexpired(cache, now + d)
    /\ updates' = Unexpired(updates, now + d)
    /\ freq' = UnexpiredCounters(freq, now + d)
    /\ UNCHANGED <<products, cacheStats, undoRedo, req, nextUpdate, last, chain>>
    /\ UNCHANGED <<productLocations, queueVars, syncVars>>
    /\ tokens' = UnexpiredTokens(tokens, now + d)
    /\ UNCHANGED checks

----------------------------------------------------------------------------
\* Print job queue (PrintQueueService)

MaxJobs == 2
MaxRetryJobs == 1
MaxCronRuns == 1

MAX_RETRIES == 3
PROCESSING_TIMEOUT == 300
LEASE_RECOVERY_WINDOW == 60
RETRY_PRIORITY_SCORE == 5
PRINT_CRON_PERIOD == 600

JobIds == 1..MaxJobs
Priorities == {"low", "normal", "high"}
priorityScores == [low |-> 1, normal |-> 5, high |-> 10]
ErrorMessages == {"printer error"}
QueueTimeSteps == {250, 350}

\* Date.now(), milliseconds
DateNow == now * 1000

NoJob ==
    [status |-> "none", failures |-> 0, timeouts |-> 0, crashed |-> FALSE, owner |-> NULL,
     workers |-> 0, missed |-> FALSE]

\* The PrintQueueItem enqueuePrintJob builds
QueueItem(id, a, priority, labelIds) ==
    [id |-> id, labelIds |-> labelIds, userId |-> a, priority |-> priority, status |-> "queued",
     retryCount |-> 0, maxRetries |-> MAX_RETRIES, errorMessage |-> UNDEF]

\* redis.zadd(QUEUE_KEY, score, member)
ZAdd(q, item, score) ==
    {e \in q : e.item # item} \cup {[item |-> item, score |-> score]}

\* The entries redis.zpopmax may pop: those of the highest score
MaxEntries(q) == {e \in q : \A f \in q : f.score <= e.score}

InQueue(q, j) == \E e \in q : e.item.id = j

\* A retry decision that lets a job through once more
RetriesLeftOrEqual(item) == item.retryCount <= item.maxRetries

\* failJob's retry decision on the item whose retryCount it has just incremented
RetriesLeft(item) == item.retryCount < item.maxRetries

\* A failJob that counts a failure when it finds no lease
FailJobCountingMisses(st, j, errorMessage) ==
    IF ~st.processing[j].present THEN [st EXCEPT !.stats.failed = @ + 1]
    ELSE LET item == [st.processing[j].item EXCEPT !.retryCount = @ + 1,
                                                   !.errorMessage = errorMessage]
         IN IF RetriesLeft(item)
            THEN [queue |-> ZAdd(st.queue, [item EXCEPT !.status = "queued"],
                                 RETRY_PRIORITY_SCORE * 1000 + DateNow),
                  processing |-> [st.processing EXCEPT ![j] = NoEntry],
                  stats |-> [st.stats EXCEPT !.retried = @ + 1],
                  jobs |-> [st.jobs EXCEPT ![j].status = "queued", ![j].failures = @ + 1]]
            ELSE [queue |-> st.queue,
                  processing |-> [st.processing EXCEPT ![j] = NoEntry],
                  stats |-> [st.stats EXCEPT !.failed = @ + 1],
                  jobs |-> [st.jobs EXCEPT ![j].status = "failed", ![j].failures = @ + 1]]

\* PrintQueueService.failJob on st = [queue, processing, stats, jobs]
FailJobEffect(st, j, errorMessage) ==
    IF ~st.processing[j].present THEN st
    ELSE LET item == [st.processing[j].item EXCEPT !.retryCount = @ + 1,
                                                   !.errorMessage = errorMessage]
         IN IF RetriesLeft(item)
            THEN [queue |-> ZAdd(st.queue, [item EXCEPT !.status = "queued"],
                                 RETRY_PRIORITY_SCORE * 1000 + DateNow),
                  processing |-> [st.processing EXCEPT ![j] = NoEntry],
                  stats |-> [st.stats EXCEPT !.retried = @ + 1],
                  jobs |-> [st.jobs EXCEPT ![j].status = "queued", ![j].failures = @ + 1]]
            ELSE [queue |-> st.queue,
                  processing |-> [st.processing EXCEPT ![j] = NoEntry],
                  stats |-> [st.stats EXCEPT !.failed = @ + 1],
                  jobs |-> [st.jobs EXCEPT ![j].status = "failed", ![j].failures = @ + 1]]

\* POST /labels/print: createPrintJob, which throws on ids it does not accept, then
\* PrintQueueService.enqueuePrintJob
EnqueuePrintJob(a, priority) ==
    /\ nextJob < MaxJobs
    /\ \E labelIds \in (SUBSET LabelIds) \ {{}} :
          /\ CreatePrintJobAccepts(labels, labelIds, a)
          /\ LET id == nextJob + 1
             IN /\ queue' = ZAdd(queue, QueueItem(id, a, priority, labelIds),
                                 priorityScores[priority] * 1000 + DateNow)
                /\ jobs' = [jobs EXCEPT ![id].status = "queued", ![id].owner = a]
                /\ nextJob' = id
    /\ stats' = [stats EXCEPT !.enqueued = @ + 1]
    /\ UNCHANGED <<processing, printed, labels>>
    /\ UNCHANGED <<confirmVars, now, ticks, lastCleanup, updVars, syncVars>>

\* PrintQueueService.dequeueNextJob on a non-empty queue (it returns null on an empty one)
DequeueNextJob ==
    /\ \E e \in MaxEntries(queue) :
          /\ queue' = queue \ {e}
          /\ processing' = [processing EXCEPT ![e.item.id] =
                 [present |-> TRUE, item |-> [e.item EXCEPT !.status = "processing"],
                  expires |-> now + PROCESSING_TIMEOUT]]
          /\ jobs' = [jobs EXCEPT ![e.item.id].status = "processing",
                                  ![e.item.id].crashed = FALSE,
                                  ![e.item.id].workers = @ + 1]
    /\ UNCHANGED <<stats, printed, labels, nextJob>>
    /\ UNCHANGED <<confirmVars, now, ticks, lastCleanup, updVars, syncVars>>

\* The worker holding job j dies: it will call neither completeJob nor failJob
WorkerCrash(j) ==
    /\ processing[j].present
    /\ ~jobs[j].crashed
    /\ jobs' = [jobs EXCEPT ![j].crashed = TRUE, ![j].workers = @ - 1]
    /\ UNCHANGED <<queue, processing, stats, printed, labels, nextJob>>
    /\ UNCHANGED <<confirmVars, now, ticks, lastCleanup, updVars, syncVars>>

\* PrintQueueService.completeJob(j), called by a worker that took job j, or by anyone
\* with an id that has no lease
CompleteJob(j) ==
    /\ jobs[j].workers > 0 \/ ~processing[j].present
    /\ IF processing[j].present
       THEN /\ printed' = printed \cup {j}
            /\ labels' = MarkLabelsAsPrinted(labels, processing[j].item.labelIds,
                                             processing[j].item.userId)
            /\ processing' = [processing EXCEPT ![j] = NoEntry]
            /\ stats' = [stats EXCEPT !.completed = @ + 1]
            /\ jobs' = [jobs EXCEPT ![j].status = "completed", ![j].workers = @ - 1]
       ELSE /\ jobs' = [jobs EXCEPT ![j].workers = IF @ > 0 THEN @ - 1 ELSE 0,
                                    ![j].missed = @ \/ jobs[j].workers > 0]
            /\ UNCHANGED <<printed, labels, processing, stats>>
    /\ UNCHANGED <<queue, nextJob>>
    /\ UNCHANGED <<confirmVars, now, ticks, lastCleanup, updVars, syncVars>>

\* PrintQueueService.failJob(j, errorMessage), called by a worker that took job j, or by
\* anyone with an id that has no lease
FailJob(j, errorMessage) ==
    /\ jobs[j].workers > 0 \/ ~processing[j].present
    /\ LET st == FailJobEffect([queue |-> queue, processing |-> processing,
                                stats |-> stats, jobs |-> jobs], j, errorMessage)
       IN /\ queue' = st.queue
          /\ processing' = st.processing
          /\ stats' = st.stats
          /\ jobs' = [st.jobs EXCEPT ![j].workers = IF @ > 0 THEN @ - 1 ELSE 0,
                                       ![j].missed = @ \/ (~processing[j].present
                                                               /\ jobs[j].workers > 0)]
    /\ UNCHANGED <<printed, labels, nextJob>>
    /\ UNCHANGED <<confirmVars, now, ticks, lastCleanup, updVars, syncVars>>

\* A cancelJob that does not compare the caller with the job's userId
CancelJobByAnyone(st, j, a) ==
    IF \E e \in st.queue : e.item.id = j
    THEN [queue |-> {e \in st.queue : e.item.id # j},
          processing |-> st.processing, ok |-> TRUE]
    ELSE IF st.processing[j].present
    THEN [queue |-> st.queue,
          processing |-> [st.processing EXCEPT ![j] = NoEntry], ok |-> TRUE]
    ELSE [queue |-> st.queue, processing |-> st.processing, ok |-> FALSE]

\* PrintQueueService.cancelJob on st = [queue, processing]; ok is what it returns
CancelJobEffect(st, j, a) ==
    IF \E e \in st.queue : e.item.id = j /\ e.item.userId = a
    THEN [queue |-> {e \in st.queue : ~(e.item.id = j /\ e.item.userId = a)},
          processing |-> st.processing, ok |-> TRUE]
    ELSE IF st.processing[j].present /\ st.processing[j].item.userId = a
    THEN [queue |-> st.queue,
          processing |-> [st.processing EXCEPT ![j] = NoEntry], ok |-> TRUE]
    ELSE [queue |-> st.queue, processing |-> st.processing, ok |-> FALSE]

\* DELETE /labels/print-queue/:jobId: PrintQueueService.cancelJob
CancelJob(j, a) ==
    /\ LET st == CancelJobEffect([queue |-> queue, processing |-> processing], j, a)
       IN /\ queue' = st.queue
          /\ processing' = st.processing
          /\ jobs' = IF st.ok THEN [jobs EXCEPT ![j].status = "cancelled"] ELSE jobs
    /\ UNCHANGED <<stats, printed, labels, nextJob>>
    /\ UNCHANGED <<confirmVars, now, ticks, lastCleanup, updVars, syncVars>>

\* PrintQueueService.purgeQueue
PurgeQueue ==
    /\ queue # {} \/ \E j \in JobIds : processing[j].present
    /\ queue' = {}
    /\ processing' = [j \in JobIds |-> NoEntry]
    /\ jobs' = [j \in JobIds |->
                  IF InQueue(queue, j) \/ processing[j].present
                  THEN [jobs[j] EXCEPT !.status = "purged"] ELSE jobs[j]]
    /\ UNCHANGED <<stats, printed, labels, nextJob>>
    /\ UNCHANGED <<confirmVars, now, ticks, lastCleanup, updVars, syncVars>>

RECURSIVE CleanupLeases(_, _)
\* The loop of cleanupExpiredJobs over the processing keys
CleanupLeases(st, keys) ==
    IF keys = {} THEN st
    ELSE LET j == CHOOSE k \in keys : TRUE
             lease == st.processing[j]
             next == IF lease.present /\ lease.expires - now < LEASE_RECOVERY_WINDOW
                     THEN IF lease.item.retryCount < lease.item.maxRetries
                          THEN LET failed == FailJobEffect(st, j, "timeout")
                               IN [failed EXCEPT !.jobs[j].timeouts = @ + 1]
                          ELSE [st EXCEPT !.processing[j] = NoEntry]
                     ELSE st
         IN CleanupLeases(next, keys \ {j})

\* PrintQueueService.cleanupExpiredJobs, run by the scheduler every 10 minutes
CleanupExpiredJobs ==
    /\ now % PRINT_CRON_PERIOD = 0
    /\ lastCleanup # now
    /\ LET st == CleanupLeases([queue |-> queue, processing |-> processing,
                                stats |-> stats, jobs |-> jobs],
                               {j \in JobIds : processing[j].present})
       IN /\ queue' = st.queue
          /\ processing' = st.processing
          /\ stats' = st.stats
          /\ jobs' = st.jobs
    /\ lastCleanup' = now
    /\ UNCHANGED <<printed, labels, nextJob>>
    /\ UNCHANGED <<confirmVars, now, ticks, updVars, syncVars>>

\* The clock moves on by d seconds, or to the scheduler's next run if that comes first;
\* the scheduler's run at an instant comes before the clock leaves the instant
TickQueue(d) ==
    /\ now < MaxCronRuns * PRINT_CRON_PERIOD
    /\ now % PRINT_CRON_PERIOD = 0 => lastCleanup = now
    /\ LET t == now + Min(d, PRINT_CRON_PERIOD - (now % PRINT_CRON_PERIOD))
       IN /\ now' = t
          /\ processing' = Unexpired(processing, t)
          /\ tokens' = UnexpiredTokens(tokens, t)
    /\ UNCHANGED <<queue, stats, printed, labels, nextJob, jobs>>
    /\ UNCHANGED <<ticks, lastCleanup, updVars, syncVars, checks>>

----------------------------------------------------------------------------
\* Synchronisation with the ERP (SyncService)

MaxSweeps == 2
MaxSyncTicks == 2

SYNC_TIMEOUT == 30000
CONFLICT_TTL == 86400
STALE_AFTER == 3600
CRON_MAX_PRODUCTS == 50
DEFAULT_MAX_PRODUCTS == 100

Sweepers == {"cron", "http"}
Strategies == {"odoo_wins", "local_wins", "timestamp", "manual"}
ComparedFields == <<"reference", "description", "stock", "status">>
SyncTimeSteps == {1, 31}

\* What the ERP answers to syncProductFromOdoo
OdooUnchanged == [default_code |-> "R1", name |-> "D1", qty_available |-> 10, active |-> TRUE]
OdooProducts ==
    {OdooUnchanged,
     [OdooUnchanged EXCEPT !.default_code = "R2", !.name = "D2"],
     [OdooUnchanged EXCEPT !.default_code = ""],
     [OdooUnchanged EXCEPT !.qty_available = 7],
     [OdooUnchanged EXCEPT !.active = FALSE]}
OdooResponses ==
    {[success |-> FALSE]} \cup {[success |-> TRUE, data |-> o] : o \in OdooProducts}

NoSweep == [pc |-> "idle"]
NoSyncResult ==
    [productsProcessed |-> 0, productsUpdated |-> 0, productsFailed |-> 0, errors |-> 0]

\* The fields detectConflicts compares, of a local row
Compared(row) ==
    [reference |-> row.reference, description |-> row.description, stock |-> row.stock,
     status |-> row.status]

\* The ERP's values of the compared fields (active transformed to a status)
OdooCompared(odoo) ==
    [reference |-> odoo.default_code, description |-> odoo.name,
     stock |-> odoo.qty_available, status |-> IF odoo.active THEN "active" ELSE "inactive"]

\* SyncService.detectConflicts: the fields whose values differ, in comparison order
DetectConflicts(row, odoo) ==
    SelectSeq(ComparedFields, LAMBDA f : Compared(row)[f] # OdooCompared(odoo)[f])

\* SyncService.resolveConflicts: whether the conflicts count as resolved.  The value each
\* strategy picks is logged and dropped; manual stores the first conflict and gives up.
ResolveConflicts(fields, strategy) == strategy # "manual"

\* saveConflictForManualResolution, called by resolveConflicts for the first conflict
ConflictsAfterResolve(store, p, fields, strategy) ==
    IF fields # <<>> /\ strategy = "manual"
    THEN [store EXCEPT ![p][Head(fields)] = [present |-> TRUE, expires |-> now + CONFLICT_TTL]]
    ELSE store

\* JavaScript's v || fallback on the strings of the model
OrElse(v, fallback) == IF v = "" THEN fallback ELSE v

\* SyncService.applyOdooChanges: the row it saves
OdooApplied(row, odoo) ==
    [row EXCEPT !.reference = IF @ # odoo.default_code THEN OrElse(odoo.default_code, @) ELSE @,
                !.description = IF @ # odoo.name THEN OrElse(odoo.name, @) ELSE @,
                !.stock = IF @ # odoo.qty_available THEN odoo.qty_available ELSE @,
                !.status = OdooCompared(odoo).status,
                !.last_odoo_sync = now]

\* SyncService.applyOdooChanges: hasChanges
HasChanges(row, odoo) == Compared(row) # OdooCompared(odoo)

\* SyncService.syncProduct on st = [products, cache, conflicts]: the stores afterwards and
\* the SyncResult
SyncProductEffect(st, p, strategy, response) ==
    LET row == st.products[p]
        fields == DetectConflicts(row, response.data)
        unchanged == [products |-> st.products, cache |-> st.cache, conflicts |-> st.conflicts]
    IN IF ~response.success
       THEN unchanged @@ [success |-> FALSE, productsProcessed |-> 1,
                          productsUpdated |-> 0, productsFailed |-> 1]
       ELSE IF fields # <<>> /\ ~ResolveConflicts(fields, strategy)
       THEN [unchanged EXCEPT !.conflicts = ConflictsAfterResolve(@, p, fields, strategy)]
            @@ [success |-> FALSE, productsProcessed |-> 1, productsUpdated |-> 0,
                productsFailed |-> 0]
       ELSE IF HasChanges(row, response.data) /\ SaveValidates(OdooApplied(row, response.data))
       THEN [products |-> [st.products EXCEPT ![p] = OdooApplied(row, response.data)],
             cache |-> InvalidateProduct(st.cache, p),
             conflicts |-> st.conflicts,
             success |-> TRUE, productsProcessed |-> 1, productsUpdated |-> 1,
             productsFailed |-> 0]
       ELSE unchanged @@ [success |-> FALSE, productsProcessed |-> 1,
                          productsUpdated |-> 0, productsFailed |-> 0]

\* POST /sync/product/:id: SyncService.syncProduct
SyncProduct(p, strategy, response) ==
    /\ LET st == SyncProductEffect([products |-> products, cache |-> cache,
                                    conflicts |-> conflicts], p, strategy, response)
       IN /\ products' = st.products
          /\ cache' = st.cache
          /\ conflicts' = st.conflicts
          /\ last' = [kind |-> "sync", productId |-> p, strategy |-> strategy,
                      response |-> response, success |-> st.success]
    /\ UNCHANGED <<syncLock, sweeps, syncStats, sweepCount>>
    /\ UNCHANGED <<confirmVars, now, ticks, lastCleanup, freq, cacheStats, updates, undoRedo, req, nextUpdate, chain,
                   productLocations, queueVars>>

ChangeTypes == {"location", "stock", "both"}

\* What updateProductLocation and updateProductStock answer (they catch every error)
OdooWriteResponses == {[success |-> TRUE], [success |-> FALSE]}

\* pushToOdoo calls updateProductLocation only for a product that has a location
LocationSent(row, changeType) == changeType \in {"location", "both"} /\ row.location # NULL

StockSent(changeType) == changeType \in {"stock", "both"}

\* result.errors of pushToOdoo after its two sub-writes
PushErrors(row, changeType, locationResponse, stockResponse) ==
    (IF LocationSent(row, changeType) /\ ~locationResponse.success
     THEN <<"Error actualizando ubicacion">> ELSE <<>>)
    \o (IF StockSent(changeType) /\ ~stockResponse.success
        THEN <<"Error actualizando stock">> ELSE <<>>)

\* POST /sync/push/:id: SyncService.pushToOdoo
PushToOdoo(p, changeType, locationResponse, stockResponse) ==
    /\ LET row == products[p]
           errors == PushErrors(row, changeType, locationResponse, stockResponse)
       IN /\ products' = IF errors = <<>>
                         THEN [products EXCEPT ![p].last_odoo_sync = now]
                         ELSE products
          /\ last' = [kind |-> "push", productId |-> p, changeType |-> changeType,
                      locationWritten |-> LocationSent(row, changeType) /\ locationResponse.success,
                      stockWritten |-> StockSent(changeType) /\ stockResponse.success,
                      success |-> errors = <<>>,
                      productsUpdated |-> IF errors = <<>> THEN 1 ELSE 0,
                      productsFailed |-> IF errors = <<>> THEN 0 ELSE 1,
                      errors |-> errors]
    /\ UNCHANGED syncVars
    /\ UNCHANGED <<confirmVars, now, ticks, lastCleanup, cache, freq, cacheStats, updates, undoRedo, req, nextUpdate,
                   chain, productLocations, queueVars>>

\* The rows fullSync selects: active, never synchronised or not within the last hour
NeedsSync(row) ==
    /\ row.status = "active"
    /\ row.last_odoo_sync = NullDate \/ row.last_odoo_sync < now - STALE_AFTER

\* The orders in which findAll may return them: last_odoo_sync ascending, nulls first
ProductsToSync(maxProducts) ==
    {Slice(f, maxProducts) : f \in
        {g \in Perms({p \in ProductIds : NeedsSync(products[p])}) :
            \A i, j \in DOMAIN g :
                i < j => products[g[i]].last_odoo_sync <= products[g[j]].last_odoo_sync}}

\* A lock that is granted whoever holds it
LockAlwaysAcquired == TRUE

\* redis.set(SYNC_LOCK_KEY, Date.now(), "PX", SYNC_TIMEOUT, "NX") answers OK
LockAcquired == ~syncLock.present

\* A lock key that outlives every sweep
NoSyncLockExpiry == now + 1000000

\* When the key set with PX SYNC_TIMEOUT runs out, in seconds
SyncLockExpiry == now + SYNC_TIMEOUT \div 1000

\* A loop turn that counts the product and drops its failure
SweepResultIgnoringFailure(result, st) ==
    [result EXCEPT !.productsProcessed = @ + 1,
                   !.productsUpdated = IF st.success THEN @ + st.productsUpdated ELSE @]

\* fullSync's bookkeeping after the syncProduct call of one loop turn
SweepResultAfter(result, st) ==
    [result EXCEPT !.productsProcessed = @ + 1,
                   !.productsUpdated = IF st.success THEN @ + st.productsUpdated ELSE @,
                   !.productsFailed = IF st.success THEN @ ELSE @ + 1,
                   !.errors = IF st.success THEN @ ELSE @ + 1]

\* fullSync(maxProducts) up to its loop: take the lock, select the products; or fail fast
FullSync(s, strategy, maxProducts) ==
    /\ sweeps[s] = NoSweep
    /\ sweepCount < MaxSweeps
    /\ sweepCount' = sweepCount + 1
    /\ IF LockAcquired
       THEN /\ syncLock' = [present |-> TRUE, value |-> now, expires |-> SyncLockExpiry]
            /\ \E todo \in ProductsToSync(maxProducts) :
                  sweeps' = [sweeps EXCEPT ![s] =
                      [pc |-> "processing", strategy |-> strategy, todo |-> todo,
                       selected |-> Len(todo), began |-> now, result |-> NoSyncResult]]
            /\ last' = [kind |-> "fullSync", sweeper |-> s, started |-> TRUE]
       ELSE /\ UNCHANGED <<syncLock, sweeps>>
            /\ last' = [kind |-> "fullSync", sweeper |-> s, started |-> FALSE,
                        success |-> FALSE, error |-> "Sincronizacion ya en progreso",
                        productsProcessed |-> 0]
    /\ UNCHANGED <<conflicts, syncStats>>
    /\ UNCHANGED <<confirmVars, now, ticks, lastCleanup, products, cache, freq, cacheStats, updates, undoRedo, req,
                   nextUpdate, chain, productLocations, queueVars>>

\* fullSync as the scheduler calls it, and as a caller who names no maxProducts does
FullSyncBegin(s, strategy) ==
    FullSync(s, strategy, IF s = "cron" THEN CRON_MAX_PRODUCTS ELSE DEFAULT_MAX_PRODUCTS)

\* One turn of fullSync's loop: syncProduct of the next selected product
FullSyncStep(s, response) ==
    /\ sweeps[s].pc = "processing"
    /\ sweeps[s].todo # <<>>
    /\ LET p == Head(sweeps[s].todo)
           st == SyncProductEffect([products |-> products, cache |-> cache,
                                    conflicts |-> conflicts], p, sweeps[s].strategy, response)
       IN /\ products' = st.products
          /\ cache' = st.cache
          /\ conflicts' = st.conflicts
          /\ sweeps' = [sweeps EXCEPT ![s].todo = Tail(@),
                                      ![s].result = SweepResultAfter(@, st)]
          /\ last' = [kind |-> "sync", productId |-> p, strategy |-> sweeps[s].strategy,
                      response |-> response, success |-> st.success]
    /\ UNCHANGED <<syncLock, syncStats, sweepCount>>
    /\ UNCHANGED <<confirmVars, now, ticks, lastCleanup, freq, cacheStats, updates, undoRedo, req, nextUpdate, chain,
                   productLocations, queueVars>>

\* SyncService.updateSyncStats
SyncStatsAfter(result) ==
    [total_syncs |-> syncStats.total_syncs + 1,
     products_processed |-> syncStats.products_processed + result.productsProcessed,
     products_updated |-> syncStats.products_updated + result.productsUpdated,
     products_failed |-> syncStats.products_failed + result.productsFailed,
     last_sync |-> now,
     successful_syncs |-> syncStats.successful_syncs + (IF result.productsFailed = 0 THEN 1 ELSE 0),
     failed_syncs |-> syncStats.failed_syncs + (IF result.productsFailed = 0 THEN 0 ELSE 1)]

\* fullSync after its loop: statistics, then releaseSyncLock (an unconditional DEL)
FullSyncEnd(s) ==
    /\ sweeps[s].pc = "processing"
    /\ sweeps[s].todo = <<>>
    /\ syncStats' = SyncStatsAfter(sweeps[s].result)
    /\ syncLock' = NoEntry
    /\ sweeps' = [sweeps EXCEPT ![s] = NoSweep]
    /\ last' = [kind |-> "fullSyncEnd", sweeper |-> s, started |-> TRUE]
    /\ UNCHANGED <<conflicts, sweepCount>>
    /\ UNCHANGED <<confirmVars, now, ticks, lastCleanup, products, cache, freq, cacheStats, updates, undoRedo, req,
                   nextUpdate, chain, productLocations, queueVars>>

\* The process running sweep s dies while it holds the lock it took
SweepCrash(s) ==
    /\ sweeps[s].pc = "processing"
    /\ syncLock.present
    /\ syncLock.value = sweeps[s].began
    /\ sweeps' = [sweeps EXCEPT ![s] = [pc |-> "crashed", at |-> now]]
    /\ UNCHANGED <<syncLock, conflicts, syncStats, sweepCount>>
    /\ UNCHANGED <<confirmVars, now, ticks, lastCleanup, products, cache, freq, cacheStats, updates, undoRedo, req,
                   nextUpdate, last, chain, productLocations, queueVars>>

\* The clock moves on by d seconds
TickSync(d) ==
    /\ ticks < MaxSyncTicks
    /\ now' = now + d
    /\ ticks' = ticks + 1
    /\ syncLock' = IF syncLock.present /\ syncLock.expires <= now + d THEN NoEntry ELSE syncLock
    /\ conflicts' = [p \in ProductIds |-> Unexpired(conflicts[p], now + d)]
    /\ cache' = Unexpired(cache, now + d)
    /\ UNCHANGED <<sweeps, syncStats, sweepCount>>
    /\ freq' = UnexpiredCounters(freq, now + d)
    /\ UNCHANGED <<lastCleanup, products, cacheStats, updates, undoRedo, req, nextUpdate, last, chain,
                   productLocations, queueVars>>
    /\ tokens' = UnexpiredTokens(tokens, now + d)
    /\ UNCHANGED checks

----------------------------------------------------------------------------
InitialProduct ==
    [reference |-> "R1", description |-> "D1", location |-> "A010", stock |-> 10,
     status |-> "active", last_odoo_sync |-> NullDate]

InitStores ==
    /\ now = 0
    /\ ticks = 0
    /\ lastCleanup = NullDate
    /\ products = [p \in ProductIds |-> InitialProduct]
    /\ cache = [p \in ProductIds |-> NoEntry]
    /\ freq = [p \in ProductIds |-> NoCounter]
    /\ cacheStats = [hits |-> 0, misses |-> 0, total |-> 0]
    /\ updates = [id \in UpdateIds |-> NoUpdate]
    /\ req = [a \in Actors |-> Idle]
    /\ nextUpdate = 0
    /\ last = NoLast
    /\ chain = NoChain
    /\ productLocations = <<>>
    /\ queue = {}
    /\ processing = [j \in JobIds |-> NoEntry]
    /\ stats = [enqueued |-> 0, completed |-> 0, failed |-> 0, retried |-> 0]
    /\ printed = {}
    /\ labels = InitialLabels
    /\ nextJob = 0
    /\ jobs = [j \in JobIds |-> NoJob]
    /\ syncLock = NoEntry
    /\ sweeps = [s \in Sweepers |-> NoSweep]
    /\ conflicts = [p \in ProductIds |-> [f \in {"reference", "description", "stock", "status"} |-> NoEntry]]
    /\ syncStats = [total_syncs |-> 0, products_processed |-> 0, products_updated |-> 0,
                    products_failed |-> 0, last_sync |-> NullDate, successful_syncs |-> 0,
                    failed_syncs |-> 0]
    /\ sweepCount = 0
    /\ tokens = <<>>
    /\ checks = [k \in CheckIds |-> NoCheck]

\* A fresh system: no undo/redo stack yet
InitUpdate == InitStores /\ undoRedo = [a \in Actors |-> <<>>]

\* The entry left by the i-th last of the earlier confirmed updates of the actor, which
\* moved the product to and fro between B215 and A010
PastOperation(i) ==
    [id |-> 0 - i,
     productId |-> "p1",
     beforeData |-> [location |-> IF i % 2 = 1 THEN "B215" ELSE "A010", stock |-> 10],
     afterData |-> [location |-> IF i % 2 = 1 THEN "A010" ELSE "B215", stock |-> 10],
     timestamp |-> 0 - i,
     canUndo |-> TRUE,
     canRedo |-> FALSE]

\* A system in which the actor has confirmed InitialHistory updates before, the
\* optimistic records of which have expired
InitHistory ==
    /\ InitStores
    /\ undoRedo = [a \in Actors |->
                      IF a \in SingleActor
                      THEN [i \in 1..Min(InitialHistory, MAX_UNDO_OPERATIONS) |-> PastOperation(i)]
                      ELSE <<>>]

\* The update requests of an actor with a history
NextHistory ==
    \/ \E a \in SingleActor, p \in OneProduct, location \in LocationInputs, stock \in StockInputs :
          UpdateBegin(a, p, location, stock)
    \/ \E a \in SingleActor, outcome \in UpdateOutcomes : UpdateFinish(a, outcome)

SpecHistory == InitHistory /\ [][NextHistory]_vars

\* Request bodies: a move, a clearing of the location, a location in lower case, and a
\* negative stock
ValidationBodies ==
    {<<"B215", UndefStock>>, <<"", UndefStock>>, <<"a010", UndefStock>>, <<UNDEF, 0 - 1>>}

\* Update requests of one actor on either route, some with bodies the schema refuses on
\* account of the location format or of a negative stock
NextValidation ==
    \/ \E a \in SingleActor, p \in OneProduct, body \in ValidationBodies :
          InvalidBody(body[1], body[2]) /\ UpdateRejected(a, p, body[1], body[2])
    \/ \E a \in SingleActor, p \in OneProduct, body \in ValidationBodies :
          UpdateBegin(a, p, body[1], body[2])
    \/ \E a \in SingleActor, outcome \in UpdateOutcomes : UpdateFinish(a, outcome)
    \/ \E a \in SingleActor, p \in OneProduct, body \in ValidationBodies,
          outcome \in UpdateOutcomes : UpdateProduct(a, p, body[1], body[2], outcome)

SpecValidation == InitUpdate /\ [][NextValidation]_vars

\* One actor moving a product, clearing its location, undoing and redoing
NextLinear ==
    \/ \E a \in SingleActor, p \in OneProduct, location \in PushLocationInputs :
          UpdateBegin(a, p, location, UndefStock)
    \/ \E a \in SingleActor, outcome \in UpdateOutcomes : UpdateFinish(a, outcome)
    \/ \E a \in SingleActor : UndoLastOperation(a)
    \/ \E a \in SingleActor : RedoLastOperation(a)

SpecLinear == InitUpdate /\ [][NextLinear]_vars

\* Request bodies that move a product and that set its stock
MoveAndCount == {<<"B215", UndefStock>>, <<UNDEF, 8>>}

\* One actor moving and counting a product, undoing and redoing
NextMultiStep ==
    \/ \E a \in SingleActor, p \in OneProduct, body \in MoveAndCount :
          UpdateBegin(a, p, body[1], body[2])
    \/ \E a \in SingleActor, outcome \in UpdateOutcomes : UpdateFinish(a, outcome)
    \/ \E a \in SingleActor : UndoLastOperation(a)
    \/ \E a \in SingleActor : RedoLastOperation(a)

SpecMultiStep == InitUpdate /\ [][NextMultiStep]_vars

\* One actor searches a product while the other updates it on the basic route
NextRace ==
    \/ \E p \in OneProduct : SearchMiss("u1", p)
    \/ SearchPut("u1")
    \/ \E p \in OneProduct : SearchByBarcode("u1", p, "none")
    \/ \E p \in OneProduct, body \in MoveAndCount : UpdateProduct("u2", p, body[1], body[2], "ok")

SpecRace == InitUpdate /\ [][NextRace]_vars

\* Location updates of one product by either actor
NextLabel ==
    \/ \E a \in Actors, p \in OneProduct, location \in PushLocationInputs :
          UpdateBegin(a, p, location, UndefStock)
    \/ \E a \in Actors, outcome \in UpdateOutcomes : UpdateFinish(a, outcome)

SpecLabel == InitUpdate /\ [][NextLabel]_vars

\* Searches and location updates of one product over time, while the store works
NextCache ==
    \/ \E a \in SingleActor, p \in OneProduct : SearchByBarcode(a, p, "none")
    \/ \E a \in SingleActor, p \in OneProduct, location \in PushLocationInputs :
          UpdateBegin(a, p, location, UndefStock)
    \/ \E a \in SingleActor : UpdateFinish(a, "ok")
    \/ \E d \in CacheTimeSteps : TickUpdate(d)

SpecCache == InitUpdate /\ [][NextCache]_vars

\* The same while the store may fail during a search
NextCacheFault ==
    \/ \E a \in SingleActor, p \in OneProduct, fault \in StoreFaults :
          SearchByBarcode(a, p, fault)
    \/ \E a \in SingleActor, p \in OneProduct, location \in PushLocationInputs :
          UpdateBegin(a, p, location, UndefStock)
    \/ \E a \in SingleActor : UpdateFinish(a, "ok")
    \/ \E d \in CacheTimeSteps : TickUpdate(d)

SpecCacheFault == InitUpdate /\ [][NextCacheFault]_vars

\* The update path at one instant
NextUpdate ==
    \/ \E a \in SingleActor, p \in OneProduct, location \in LocationInputs, stock \in StockInputs :
          \/ UpdateRejected(a, p, location, stock)
          \/ UpdateBegin(a, p, location, stock)
    \/ \E a \in SingleActor, outcome \in UpdateOutcomes : UpdateFinish(a, outcome)
    \/ \E a \in SingleActor, p \in OneProduct : SearchByBarcode(a, p, "none")
    \/ \E a \in SingleActor : UndoLastOperation(a)
    \/ \E a \in SingleActor : RedoLastOperation(a)

SpecUpdate == InitUpdate /\ [][NextUpdate]_vars

\* The optimistic records over time: one actor's requests, the clock and the scheduler
NextExpiry ==
    \/ \E a \in SingleActor, p \in OneProduct, location \in LocationInputs, stock \in StockInputs :
          UpdateBegin(a, p, location, stock)
    \/ \E a \in SingleActor, outcome \in UpdateOutcomes : UpdateFinish(a, outcome)
    \/ CleanupExpiredOperations
    \/ \E d \in UpdateTimeSteps : TickUpdate(d)

SpecExpiry == InitUpdate /\ [][NextExpiry]_vars

\* What workers, callers, the clock and the scheduler do with the jobs of the queue
QueueWork ==
    \/ DequeueNextJob
    \/ \E j \in JobIds : WorkerCrash(j)
    \/ \E j \in JobIds : CompleteJob(j)
    \/ \E j \in JobIds, errorMessage \in ErrorMessages : FailJob(j, errorMessage)
    \/ \E j \in JobIds, a \in SingleActor : CancelJob(j, a)
    \/ PurgeQueue
    \/ CleanupExpiredJobs
    \/ \E d \in QueueTimeSteps : TickQueue(d)

\* The print queue
NextQueue ==
    \/ \E a \in SingleActor, priority \in Priorities : EnqueuePrintJob(a, priority)
    \/ QueueWork

SpecQueue == InitUpdate /\ [][NextQueue]_vars

\* enqueuePrintJob while fewer than MaxRetryJobs jobs have been enqueued
EnqueueRetryJob(a, priority) == nextJob < MaxRetryJobs /\ EnqueuePrintJob(a, priority)

\* The print queue with at most MaxRetryJobs jobs
NextRetry ==
    \/ \E a \in SingleActor, priority \in Priorities : EnqueueRetryJob(a, priority)
    \/ QueueWork

SpecRetry == InitUpdate /\ [][NextRetry]_vars

\* updateProductAdvanced up to the durable write while fewer than MaxStagedUpdates updates
\* have been staged
StageUpdate(a, p, location, stock) ==
    nextUpdate < MaxStagedUpdates /\ UpdateBegin(a, p, location, stock)

\* The operations of the update manager and of the print queue; confirm and rollback are
\* also called from outside the update request, with the ids of records that are not
\* there, and complete and fail are called with the ids of jobs that have no lease (never
\* taken, or cancelled under the worker)
NextNotFound ==
    \/ \E a \in SingleActor, p \in OneProduct : StageUpdate(a, p, "B215", UndefStock)
    \/ \E a \in SingleActor, outcome \in {"ok", "throw_save"} : UpdateFinish(a, outcome)
    \/ \E id \in UpdateIds : ~updates[id].present /\ ConfirmOptimisticUpdate(id)
    \/ \E id \in UpdateIds : ~updates[id].present /\ RollbackUpdate(id, "caller")
    \/ \E a \in SingleActor : UndoLastOperation(a)
    \/ \E a \in SingleActor : RedoLastOperation(a)
    \/ \E a \in SingleActor : EnqueueRetryJob(a, "normal")
    \/ DequeueNextJob
    \/ \E j \in JobIds : ~processing[j].present /\ CompleteJob(j)
    \/ \E j \in JobIds, errorMessage \in ErrorMessages :
          ~processing[j].present /\ FailJob(j, errorMessage)
    \/ \E j \in JobIds, a \in Actors : CancelJob(j, a)

SpecNotFound == InitUpdate /\ [][NextNotFound]_vars

\* Request bodies that set the stock to zero and that move the product
ConfirmBodies == {<<UNDEF, 0>>, <<"B215", UndefStock>>}

\* Updates of either actor on the advanced route, with and without a confirmationToken
NextConfirm ==
    \/ \E a \in SingleActor, p \in OneProduct, body \in ConfirmBodies :
          ConfirmationNeeded(a, p, body[1], body[2])
    \/ \E k \in CheckIds, a \in Actors, p \in ProductIds, body \in ConfirmBodies,
          t \in 1..UnknownToken :
          DetectCriticalChanges(k, a, p, body[1], body[2], t)
    \/ \E k \in CheckIds : FinishDetection(k)
    \/ \E a \in SingleActor, p \in OneProduct, body \in ConfirmBodies :
          StageUpdate(a, p, body[1], body[2])
    \/ \E a \in SingleActor : UpdateFinish(a, "ok")

SpecConfirm == InitUpdate /\ [][NextConfirm]_vars

\* The print queue with at most MaxRetryJobs jobs, enqueued and cancelled by either actor
NextCancel ==
    \/ \E a \in Actors : EnqueueRetryJob(a, "normal")
    \/ DequeueNextJob
    \/ \E j \in JobIds : WorkerCrash(j)
    \/ \E j \in JobIds : CompleteJob(j)
    \/ \E j \in JobIds, errorMessage \in ErrorMessages : FailJob(j, errorMessage)
    \/ \E j \in JobIds, a \in Actors : CancelJob(j, a)
    \/ PurgeQueue
    \/ CleanupExpiredJobs
    \/ \E d \in QueueTimeSteps : TickQueue(d)

SpecCancel == InitUpdate /\ [][NextCancel]_vars

\* Elapsed time between two syncProduct calls
SyncCallGaps == {1}

\* Single-product synchronisation calls over time
NextSyncProduct ==
    \/ \E p \in OneProduct, strategy \in Strategies, response \in OdooResponses :
          SyncProduct(p, strategy, response)
    \/ \E d \in SyncCallGaps : TickSync(d)

SpecSyncProduct == InitUpdate /\ [][NextSyncProduct]_vars

\* What the ERP answers during a sweep: an error, the record as it is locally, or a
\* record with another quantity
BatchResponses ==
    {[success |-> FALSE], [success |-> TRUE, data |-> OdooUnchanged],
     [success |-> TRUE, data |-> [OdooUnchanged EXCEPT !.qty_available = 7]]}

\* Sweeps of the scheduler and of a caller over time
NextSweep ==
    \/ \E strategy \in Strategies : FullSyncBegin("http", strategy)
    \/ FullSyncBegin("cron", "timestamp")
    \/ \E s \in Sweepers, response \in BatchResponses : FullSyncStep(s, response)
    \/ \E s \in Sweepers : FullSyncEnd(s)
    \/ \E d \in SyncTimeSteps : TickSync(d)

SpecSweep == InitUpdate /\ [][NextSweep]_vars

\* Pushes to the ERP of a product whose location a caller changes or clears
NextPush ==
    \/ \E a \in SingleActor, p \in OneProduct, location \in PushLocationInputs :
          UpdateBegin(a, p, location, UndefStock)
    \/ \E a \in SingleActor, outcome \in UpdateOutcomes : UpdateFinish(a, outcome)
    \/ \E p \in OneProduct, changeType \in ChangeTypes,
          locationResponse \in OdooWriteResponses, stockResponse \in OdooWriteResponses :
          PushToOdoo(p, changeType, locationResponse, stockResponse)
    \/ \E d \in UpdateTimeSteps : TickUpdate(d)

SpecPush == InitUpdate /\ [][NextPush]_vars

\* Sweeps of the scheduler and of a caller while the ERP fails now and then
NextBatch ==
    \/ FullSyncBegin("http", "odoo_wins")
    \/ FullSyncBegin("cron", "timestamp")
    \/ \E s \in Sweepers, response \in BatchResponses : FullSyncStep(s, response)
    \/ \E s \in Sweepers : FullSyncEnd(s)
    \/ \E d \in SyncTimeSteps : TickSync(d)

SpecBatch == InitUpdate /\ [][NextBatch]_vars

\* Sweeps whose process may die
NextToken ==
    \/ NextBatch
    \/ \E s \in Sweepers : SweepCrash(s)

SpecToken == InitUpdate /\ [][NextToken]_vars

\* What the ERP answers while it is reachable
ReachableResponses == {r \in OdooResponses : r.success}

\* A caller asks again and again for sweeps of one product each, and the ERP answers
NextSmallSweeps ==
    \/ \E strategy \in Strategies : FullSync("http", strategy, 1)
    \/ \E response \in ReachableResponses : FullSyncStep("http", response)
    \/ FullSyncEnd("http")

\* Every sweep that can begin does, and runs to its end
FairSpecSmallSweeps ==
    /\ InitUpdate
    /\ [][NextSmallSweeps]_vars
    /\ WF_vars(\E strategy \in Strategies : FullSync("http", strategy, 1))
    /\ WF_vars(\E response \in ReachableResponses : FullSyncStep("http", response))
    /\ WF_vars(FullSyncEnd("http"))

\* The scheduler runs and time passes
FairSpecQueue ==
    SpecQueue /\ WF_vars(CleanupExpiredJobs) /\ WF_vars(\E d \in QueueTimeSteps : TickQueue(d))

----------------------------------------------------------------------------
\* Properties of the optimistic update manager

\* C1: after a failed durable write and its rollback, the product's durable location and
\* stock are the durable values of the moment just before the update was staged.
C1_RollbackRestoresDurable ==
    last.kind = "update_failed" =>
        LocStock(products[last.productId]) = last.stageDurable

\* C5: after a confirmed update U, with nothing else touching the product, undo then redo
\* leaves location and stock as they were after U, and redo then undo (right after U, or
\* after a first undo) leaves them as they were before U.
C5_UndoRedoInverse ==
    chain # NoChain =>
        /\ chain.steps = <<"undo", "redo">> =>
               LocStock(products[chain.productId]) = chain.after
        /\ chain.steps \in {<<"redo", "undo">>, <<"undo", "redo", "undo">>} =>
               LocStock(products[chain.productId]) = chain.before

\* The undo/redo entries that came from update id
EntriesOf(stacks, id) ==
    {<<a, i>> \in Actors \X (1..MAX_UNDO_OPERATIONS) : i <= Len(stacks[a]) /\ stacks[a][i].id = id}

\* C8: once an update id is confirmed or rolled back, no later step changes its confirmed
\* flag or its rollback reason, or pushes another undo/redo entry for it.
C8_SingleUse ==
    [][\A id \in UpdateIds :
          (/\ updates[id].present
           /\ updates[id].confirmed \/ updates[id].rollbackReason # UNDEF
           /\ updates'[id].present)
          => /\ updates'[id].confirmed = updates[id].confirmed
             /\ updates'[id].rollbackReason = updates[id].rollbackReason
             /\ Cardinality(EntriesOf(undoRedo', id)) <= Cardinality(EntriesOf(undoRedo, id))]_vars

\* C9: when an update, undo, redo or rollback has changed a product's durable location or
\* stock, the cache holds no entry for the product as the operation returns.
C9_CacheInvalidated ==
    (last.kind \in {"update", "update_failed", "undo", "redo"} /\ last.changed) =>
        ~cache[last.productId].present

\* C13: no undo/redo stack ever holds more than MAX_UNDO_OPERATIONS entries, and a
\* confirmed update puts its entry first and keeps the earlier entries behind it in their
\* order, dropping the oldest one when the stack was full.
C13_BoundedHistory ==
    [][\A a \in Actors :
          /\ Len(undoRedo'[a]) <= MAX_UNDO_OPERATIONS
          /\ (last'.kind = "update" /\ undoRedo'[a] # undoRedo[a]) =>
                /\ Len(undoRedo'[a]) = Min(Len(undoRedo[a]) + 1, MAX_UNDO_OPERATIONS)
                /\ \A i \in 1..Len(undoRedo[a]) : undoRedo'[a][1].id # undoRedo[a][i].id
                /\ \A i \in 2..Len(undoRedo'[a]) :
                      [undoRedo'[a][i] EXCEPT !.canRedo = FALSE]
                          = [undoRedo[a][i - 1] EXCEPT !.canRedo = FALSE]]_vars

\* An 11th entry has been pushed: the stack is full, a new entry is first and the oldest of
\* the earlier entries is gone
C13_Witness ==
    \E a \in SingleActor :
        /\ Len(undoRedo[a]) = MAX_UNDO_OPERATIONS
        /\ undoRedo[a][1].id >= 1
        /\ \A i \in 1..Len(undoRedo[a]) : undoRedo[a][i].id # 0 - InitialHistory

\* C22: when an update request has confirmed its optimistic record, the entry of that
\* update is first in the stack of its actor with canUndo = true and canRedo = false,
\* and no entry of the stack has canRedo = true.
C22_LinearHistory ==
    [][\A a \in Actors :
          (req[a].pc = "writing" /\ req'[a] = Idle /\ last'.kind = "update"
           /\ updates[req[a].id].present)
          => /\ undoRedo'[a] # <<>>
             /\ undoRedo'[a][1].id = req[a].id
             /\ undoRedo'[a][1].canUndo
             /\ \A i \in 1..Len(undoRedo'[a]) : ~undoRedo'[a][i].canRedo]_vars

\* A confirm has just pushed its entry onto a stack whose earlier entry had been undone:
\* that entry can no longer be redone
C22_Witness ==
    \E a \in SingleActor :
        /\ last.kind = "update"
        /\ Len(undoRedo[a]) >= 2
        /\ ~undoRedo[a][2].canUndo
        /\ ~undoRedo[a][2].canRedo

\* C23: rollbackOptimisticUpdate on a confirmed update id returns false and leaves the
\* products and the optimistic records as they are (it does not touch the undo/redo
\* stacks at all); so did the rollback calls of a request that threw after its confirm.
C23_RollbackOfConfirmedIsNoOp ==
    /\ \A id \in UpdateIds :
          (updates[id].present /\ updates[id].confirmed) =>
             /\ RollbackOptimisticUpdate([products |-> products, updates |-> updates],
                                         id, "response error")
                   = [products |-> products, updates |-> updates]
             /\ ~RollbackReturns([products |-> products, updates |-> updates], id)
    /\ last.kind = "update" => \A i \in DOMAIN last.rollbacks : ~last.rollbacks[i]

\* A request has confirmed its update, thrown, and called rollback on the confirmed id
C23_Witness ==
    /\ last.kind = "update"
    /\ last.rollbacks # <<>>
    /\ last.changed
    /\ \E id \in UpdateIds : updates[id].present /\ updates[id].confirmed

\* C24: a run of cleanupExpiredOperations rolls back, with the reason "expired", every
\* staged update that is still unconfirmed and older than UPDATE_TTL, and leaves every
\* confirmed record and every younger unconfirmed record as it was.
C24_CleanupResolvesExpired ==
    [][(lastCleanup' # lastCleanup /\ last'.kind = "cleanup") =>
          /\ \A a \in Actors :
                (req[a].pc = "writing" /\ now - req[a].stagedAt > UPDATE_TTL) =>
                   /\ updates'[req[a].id].present
                   /\ updates'[req[a].id].rollbackReason = "expired"
          /\ \A id \in UpdateIds :
                (updates[id].present /\ ~ExpiredUnconfirmed(updates, id)) =>
                   updates'[id] = updates[id]]_vars

\* C30: when an update of actor a that changes the product's location to a non-null
\* value is confirmed, the label of (product, a) exists, carries the new location and is
\* unprinted, and the labels of the other actors for the product are as they were.
C30_LabelPerProductPerCreator ==
    [][\A a \in Actors :
          LET p == req[a].productId IN
          (/\ req[a].pc = "writing" /\ req'[a] = Idle
           /\ last'.kind = "update"
           /\ updates[req[a].id].present
           /\ products'[p].location # products[p].location
           /\ products'[p].location # NULL)
          => /\ labels'[p][a] = [present |-> TRUE, location |-> products'[p].location,
                                 is_printed |-> FALSE]
             /\ \A c \in Actors \ {a} : labels'[p][c] = labels[p][c]]_vars

\* u1 has moved p1 to B215 and got a label for it, next to u2's printed label of p1
C30_Witness ==
    /\ last.kind = "update"
    /\ products["p1"].location = "B215"
    /\ labels["p1"]["u1"] = [present |-> TRUE, location |-> "B215", is_printed |-> FALSE]
    /\ labels["p1"]["u2"] = [present |-> TRUE, location |-> "A010", is_printed |-> TRUE]

C28_DegradeToMiss ==
    [][(last'.kind = "search" /\ last'.fault # "none" /\ now' = now) =>
          LET p == last'.productId IN
          /\ last'.source = "database"
          /\ last'.product = IF products[p].status = "active" THEN products[p] ELSE NoProduct
          /\ cacheStats'.misses = cacheStats.misses + 1
          /\ cacheStats'.hits = cacheStats.hits]_vars

\* C29: every lookup adds one to total and one to hits or to misses: to hits, and one to
\* the barcode's frequency counter, when the entry was there, to misses, leaving the
\* counter alone, when it was not; hits + misses = total throughout.
C29_CacheAccounting ==
    /\ [](cacheStats.hits + cacheStats.misses = cacheStats.total)
    /\ [][(now' = now /\ last'.kind \in {"search", "staged", "rejected"}) =>
            LET p == last'.productId IN
            /\ cacheStats'.total = cacheStats.total + 1
            /\ IF cache[p].present
               THEN /\ cacheStats'.hits = cacheStats.hits + 1
                    /\ cacheStats'.misses = cacheStats.misses
                    /\ freq'[p].count = freq[p].count + 1
               ELSE /\ cacheStats'.hits = cacheStats.hits
                    /\ cacheStats'.misses = cacheStats.misses + 1
                    /\ freq'[p] = freq[p]]_vars

\* Lookups have hit twice and missed twice, the second miss after the entry had gone
C29_Witness ==
    /\ cacheStats.hits >= 2
    /\ cacheStats.misses >= 2
    /\ freq["p1"].count = cacheStats.hits

NotFoundFrame == <<products, updates, undoRedo, queue, processing, stats>>

\* C32: not-found has no side effects: confirm and rollback of an id with no record,
\* complete, fail and cancel of an id with neither a lease nor a queue entry, and undo and
\* redo of an actor with no eligible operation fail and leave the products, the
\* optimistic records, the undo/redo stacks, the queue, the leases and the queue
\* statistics as they were
C32_NotFoundNoEffect ==
    [][/\ \A id \in UpdateIds :
             ~updates[id].present =>
                /\ ConfirmOptimisticUpdate(id) => UNCHANGED NotFoundFrame
                /\ RollbackUpdate(id, "caller") =>
                      /\ UNCHANGED NotFoundFrame
                      /\ ~RollbackReturns([products |-> products, updates |-> updates], id)
       /\ \A j \in JobIds :
             ~processing[j].present =>
                /\ CompleteJob(j) => UNCHANGED NotFoundFrame
                /\ \A errorMessage \in ErrorMessages :
                      FailJob(j, errorMessage) => UNCHANGED NotFoundFrame
                /\ \A a \in Actors :
                      (~InQueue(queue, j) /\ CancelJob(j, a)) =>
                         /\ UNCHANGED NotFoundFrame
                         /\ ~CancelJobEffect([queue |-> queue, processing |-> processing],
                                             j, a).ok
       /\ \A a \in Actors :
             /\ ((\A i \in 1..Len(undoRedo[a]) : ~undoRedo[a][i].canUndo)
                    /\ UndoLastOperation(a))
                   => UNCHANGED NotFoundFrame
             /\ ((\A i \in 1..Len(undoRedo[a]) : ~undoRedo[a][i].canRedo)
                    /\ RedoLastOperation(a))
                   => UNCHANGED NotFoundFrame]_vars

\* A rollback has been called with an id that has no record, after the product was
\* moved, and a worker whose job was cancelled under it has called complete or fail
C32_Witness ==
    /\ last.kind = "rollback"
    /\ ~last.found
    /\ nextUpdate >= 1
    /\ products["p1"].location # InitialProduct.location
    /\ undoRedo["u1"] # <<>>
    /\ \E j \in JobIds :
          /\ jobs[j].status = "cancelled"
          /\ jobs[j].missed
          /\ jobs[j].workers = 0
          /\ stats.enqueued = 1

\* C34: multi-step undo/redo is linear: when the last two confirmed updates of an actor
\* on a product have both been undone, with nothing else in between, the first redo puts
\* the product in the state after the earlier of the two, which was undone last
C34_LinearMultiStep ==
    (/\ chain # NoChain
     /\ chain.steps = <<"undo", "undo", "redo">>
     /\ Len(undoRedo[chain.actor]) >= 2
     /\ \A i \in 1..2 : /\ undoRedo[chain.actor][i].productId = chain.productId
                        /\ undoRedo[chain.actor][i].canUndo \/ undoRedo[chain.actor][i].canRedo)
    => LocStock(products[chain.productId]) = chain.before

\* C37: cache coherence under concurrency: when no search and no update is in flight, an
\* entry the cache holds for a product equals the product's row
C37_CacheCoherent ==
    (\A a \in Actors : req[a] = Idle) =>
        \A p \in ProductIds : cache[p].present => cache[p].data = products[p]

\* C38: a staged update restores the product at most once: of the two rollbacks of a
\* request that failed at most one writes the product, and a record that has been rolled
\* back is not rolled back again by a later step
C38_RestoreAtMostOnce ==
    [][/\ last'.kind = "update_failed" =>
             Cardinality({i \in 1..2 : last'.rollbacks[i]}) <= 1
       /\ \A id \in UpdateIds :
             (/\ updates[id].present
              /\ updates[id].rollbackReason # UNDEF
              /\ updates'[id].present)
             => updates'[id] = updates[id]]_vars

\* C39: no lost update across actors: a step that rolls back an update of one actor leaves
\* location and stock of the product as they are when another actor's update of the same
\* product, staged after the first one's snapshot was taken, has been confirmed
C39_NoLostUpdate ==
    [][\A ia \in UpdateIds, ib \in UpdateIds :
          (/\ ia < ib
           /\ updates[ia].present /\ updates[ib].present
           /\ updates[ia].actor # updates[ib].actor
           /\ updates[ia].productId = updates[ib].productId
           /\ updates[ib].confirmed
           /\ updates'[ia].present
           /\ updates'[ia].rollbackReason # updates[ia].rollbackReason)
          => LocStock(products'[updates[ia].productId]) = LocStock(products[updates[ia].productId])]_vars

\* C40: a request whose changes require confirmation is answered "confirmation needed"
\* with a token of its user and product; a request is in the update handler only with
\* changes that require no confirmation, and passes the token check only with a token of
\* its user and product; and no token lets more than one request pass
C40_ConfirmationProtocol ==
    /\ last.kind = "confirmation_needed" =>
          /\ tokens[last.token].present
          /\ tokens[last.token].userId = last.actor
          /\ tokens[last.token].productId = last.productId
    /\ \A a \in Actors :
          req[a].pc = "writing" =>
             ~RequiresConfirmation(req[a].stageDurable, req[a].location, req[a].stock)
    /\ \A k \in CheckIds :
          checks[k].pc = "verified" =>
             /\ tokens[checks[k].token].userId = checks[k].actor
             /\ tokens[checks[k].token].productId = checks[k].productId
    /\ \A t \in 1..Len(tokens) : tokens[t].uses <= 1

\* C11: a row is added to product_locations only by an update request that is confirmed
\* and has changed the product's location, one row per such request; a request whose
\* durable write fails and is rolled back adds none.
C11_LocationRecordExactlyOnce ==
    [][/\ Len(productLocations') <= Len(productLocations) + 1
       /\ productLocations' # productLocations =>
              /\ last'.kind = "update"
              /\ products'[last'.productId].location # products[last'.productId].location]_vars

----------------------------------------------------------------------------
\* Properties of the print job queue

\* A job that was enqueued and neither cancelled nor purged
Tracked(j) == jobs[j].status \in {"queued", "processing", "completed", "failed"}

\* In how many of queued, processing, completed, failed job j is
Places(j) ==
    (IF InQueue(queue, j) THEN 1 ELSE 0) + (IF processing[j].present THEN 1 ELSE 0)
    + (IF jobs[j].status = "completed" THEN 1 ELSE 0)
    + (IF jobs[j].status = "failed" THEN 1 ELSE 0)

\* C2: every job that was enqueued and not cancelled or purged is in exactly one of
\* queued (in the sorted set), processing (lease key present), completed, failed.
C2_NoJobLost == \A j \in JobIds : Tracked(j) => Places(j) = 1

\* C4: dequeueNextJob never takes a job while a job of a strictly higher priority class
\* is queued (both as enqueued, not re-queued by a retry), whatever the gap between
\* their enqueues.
C4_StrictPriority ==
    [][\A j \in JobIds :
          (~processing[j].present /\ processing'[j].present /\ processing'[j].item.retryCount = 0)
          => \A e \in queue :
                e.item.retryCount = 0 =>
                    priorityScores[e.item.priority]
                        <= priorityScores[processing'[j].item.priority]]_vars

\* C14: of two queued jobs of the same priority class (both as enqueued, not re-queued
\* by a retry) that were enqueued at different instants, dequeueNextJob never takes the
\* one enqueued later while the one enqueued earlier is still queued.
C14_FifoWithinClass ==
    [][\A e, f \in queue :
          (/\ f \notin queue'
           /\ processing'[f.item.id].present
           /\ e.item.retryCount = 0 /\ f.item.retryCount = 0
           /\ e.item.priority = f.item.priority
           /\ e.score # f.score)
          => f.item.id < e.item.id]_vars

\* C6: a job whose processing has failed MAX_RETRIES times, through failJob called by a
\* worker or by cleanupExpiredJobs, is failed and is neither queued nor in processing; no
\* job fails more often than that.
C6_RetryBound ==
    \A j \in JobIds :
        /\ jobs[j].failures <= MAX_RETRIES
        /\ jobs[j].failures = MAX_RETRIES =>
               /\ jobs[j].status = "failed"
               /\ ~InQueue(queue, j)
               /\ ~processing[j].present

\* A job has failed MAX_RETRIES times, once at least through cleanupExpiredJobs
C6_Witness ==
    \E j \in JobIds :
        jobs[j].failures = MAX_RETRIES /\ jobs[j].timeouts >= 1 /\ jobs[j].status = "failed"

\* C25: cancelJob returns true only for the job's owner and only when the job is in the
\* queue or in processing; it then leaves the job in neither, and the job stays cancelled:
\* never queued, in processing or printed again. For any other caller it returns false
\* and changes neither the queue nor processing.
C25_CancelByOwnerOnly ==
    /\ [](\A j \in JobIds, a \in Actors :
            LET st == CancelJobEffect([queue |-> queue, processing |-> processing], j, a)
            IN /\ st.ok => /\ jobs[j].owner = a
                           /\ InQueue(queue, j) \/ processing[j].present
                           /\ ~InQueue(st.queue, j)
                           /\ ~st.processing[j].present
               /\ jobs[j].owner # a => /\ ~st.ok
                                       /\ st.queue = queue
                                       /\ st.processing = processing)
    /\ [][\A j \in JobIds :
            jobs[j].status = "cancelled" =>
               /\ jobs'[j].status = "cancelled"
               /\ ~InQueue(queue', j)
               /\ ~processing'[j].present
               /\ (j \in printed') = (j \in printed)]_vars

\* A job of actor u2 that had failed once and was queued again has been cancelled
C25_Witness ==
    \E j \in JobIds :
        /\ jobs[j].status = "cancelled"
        /\ jobs[j].owner = "u2"
        /\ jobs[j].failures >= 1
        /\ now > 0

C33_ExclusiveProcessing ==
    [][\A j \in JobIds :
          /\ jobs'[j].workers <= 1
          /\ (processing[j].present /\ CompleteJob(j)) => j \notin printed]_vars

\* C10: a job whose worker crashed while holding it is eventually queued again or failed
\* (or cancelled or purged by a caller).
C10_LeaseRecovery ==
    \A j \in JobIds :
        (jobs[j].status = "processing" /\ jobs[j].crashed)
            ~> (InQueue(queue, j) \/ jobs[j].status \in {"failed", "cancelled", "purged"})

----------------------------------------------------------------------------
\* Properties of the synchronisation

\* C3: at most one fullSync sweep is inside its product-processing section at any time.
C3_SweepMutex == Cardinality({s \in Sweepers : sweeps[s].pc = "processing"}) <= 1

\* C7: a syncProduct call with strategy local_wins leaves reference, description, stock
\* and status of the product as they were before the call, also where they differ from
\* the ERP record.
C7_LocalWins ==
    [][(last'.kind = "sync" /\ last'.strategy = "local_wins") =>
          Compared(products'[last'.productId]) = Compared(products[last'.productId])]_vars

\* A step that is a syncProduct call for which the ERP has answered with a record
SyncCallStep == now' = now /\ last'.kind = "sync" /\ last'.response.success

\* C12: a syncProduct call that follows a syncProduct call of the same product with the
\* same strategy and the same ERP record, nothing else having happened to the product in
\* between, writes nothing: no field and no last_odoo_sync of the product changes.
C12_IdempotentSync ==
    [][(/\ SyncCallStep
        /\ last.kind = "sync"
        /\ last.productId = last'.productId
        /\ last.strategy = last'.strategy
        /\ last.response = last'.response)
       => products'[last'.productId] = products[last'.productId]]_vars

\* C15: a syncProduct call with strategy manual on a product of which k >= 1 compared
\* fields differ from the ERP record stores a conflict entry for each of the k fields,
\* returns failure and leaves the product as it was.
C15_ManualPersistsAll ==
    [][(/\ SyncCallStep
        /\ last'.strategy = "manual"
        /\ DetectConflicts(products[last'.productId], last'.response.data) # <<>>)
       => /\ \A i \in DOMAIN DetectConflicts(products[last'.productId], last'.response.data) :
                conflicts'[last'.productId]
                    [DetectConflicts(products[last'.productId], last'.response.data)[i]].present
          /\ ~last'.success
          /\ products' = products]_vars

\* C16: after a syncProduct call with strategy odoo_wins on a product that differs from
\* the ERP record, reference, description, stock and status of the product are the ERP's,
\* last_odoo_sync is the time of the call and the cache holds no entry for the product.
C16_ErpWins ==
    [][(/\ SyncCallStep
        /\ last'.strategy = "odoo_wins"
        /\ DetectConflicts(products[last'.productId], last'.response.data) # <<>>)
       => /\ Compared(products'[last'.productId]) = OdooCompared(last'.response.data)
          /\ products'[last'.productId].last_odoo_sync = now
          /\ ~cache'[last'.productId].present]_vars

\* C17: a fullSync call that starts while the sync lock is held returns success = false
\* with the error "sync already in progress" and zero products processed, and changes no
\* product, no sweep in flight and not the lock.
C17_FailFast ==
    [][(sweepCount' = sweepCount + 1 /\ syncLock.present)
       => /\ last'.kind = "fullSync"
          /\ ~last'.started
          /\ ~last'.success
          /\ last'.error = "Sincronizacion ya en progreso"
          /\ last'.productsProcessed = 0
          /\ products' = products
          /\ sweeps' = sweeps
          /\ syncLock' = syncLock]_vars

\* A fullSync call has just been turned away while another sweep is in its loop
C17_Witness ==
    /\ last.kind = "fullSync"
    /\ ~last.started
    /\ \E s \in Sweepers : sweeps[s].pc = "processing" /\ sweeps[s].todo # <<>>

\* C18: the sync lock never outlives SYNC_TIMEOUT, whoever took it and whether or not its
\* holder is still alive: a fullSync call is turned away only while a lock taken less than
\* SYNC_TIMEOUT ago exists, so a call made later than that after a crash acquires it.
C18_TokenExpires ==
    [][/\ syncLock'.present => now' < syncLock'.value + SYNC_TIMEOUT \div 1000
       /\ (sweepCount' = sweepCount + 1 /\ ~last'.started)
             => (syncLock.present /\ now < syncLock.value + SYNC_TIMEOUT \div 1000)]_vars

\* A sweep has crashed holding the lock, and a later fullSync call has acquired the lock
C18_Witness ==
    \E s, t \in Sweepers :
        /\ sweeps[s].pc = "crashed"
        /\ sweeps[t].pc = "processing"
        /\ syncLock.present
        /\ syncLock.value = sweeps[t].began
        /\ sweeps[t].began > sweeps[s].at

\* C36: the sync token is released only by the sweep that acquired it: a sweep that
\* ends while the token in the store is one that another sweep took leaves that token
\* where it is
C36_ReleaseOwnTokenOnly ==
    [][\A s \in Sweepers :
          (/\ sweeps[s].pc = "processing"
           /\ sweeps'[s] = NoSweep
           /\ syncLock.present
           /\ syncLock.value # sweeps[s].began)
          => syncLock' = syncLock]_vars

\* C20: a sweep in its loop either makes a loop turn, which takes the next selected
\* product off its list and, when the ERP client has answered with an error, adds one to
\* the failed count and one error string, or, with every selected product attempted, ends
\* and deletes the lock; an ERP error never ends it.
C20_FailureIsolation ==
    [][\A s \in Sweepers :
          (sweeps[s].pc = "processing" /\ sweeps'[s] # sweeps[s]) =>
             \/ /\ sweeps'[s].pc = "processing"
                /\ sweeps[s].todo # <<>>
                /\ sweeps'[s].todo = Tail(sweeps[s].todo)
                /\ last'.kind = "sync"
                /\ last'.productId = Head(sweeps[s].todo)
                /\ sweeps'[s].result.productsProcessed = sweeps[s].result.productsProcessed + 1
                /\ ~last'.response.success =>
                      /\ sweeps'[s].result.productsFailed = sweeps[s].result.productsFailed + 1
                      /\ sweeps'[s].result.errors = sweeps[s].result.errors + 1
             \/ /\ sweeps'[s] = NoSweep
                /\ sweeps[s].todo = <<>>
                /\ sweeps[s].result.productsProcessed = sweeps[s].selected
                /\ ~syncLock'.present]_vars

\* The ERP client has failed on the first of two selected products: the failure is
\* counted and the sweep is in its loop with the second product to go
C20_Witness ==
    \E s \in Sweepers :
        /\ sweeps[s].pc = "processing"
        /\ sweeps[s].selected = 2
        /\ Len(sweeps[s].todo) = 1
        /\ sweeps[s].result.productsFailed = 1
        /\ sweeps[s].result.errors = 1
        /\ last.kind = "sync"
        /\ ~last.response.success

\* C19: a pushToOdoo call stamps last_odoo_sync and reports success only if each
\* sub-write its changeType asks for (location, stock or both) has been made at the ERP
\* and has succeeded; otherwise it leaves the product as it was and reports failure with
\* an error naming each failed sub-write.
C19_PushStampsOnlyOnSuccess ==
    [][(now' = now /\ last'.kind = "push") =>
          LET p == last'.productId
              wanted == (last'.changeType \in {"location", "both"} => last'.locationWritten)
                        /\ (last'.changeType \in {"stock", "both"} => last'.stockWritten)
          IN /\ (last'.success \/ products'[p] # products[p]) => wanted
             /\ ~wanted => last'.errors # <<>>]_vars

C21_OnlyManualBlocks ==
    [][(SyncCallStep /\ last'.strategy # "manual") => last'.success]_vars

====
